---------------------------- MODULE Spec2Model ----------------------------
(***************************************************************************)
(* Simulation kernel of btengine: L2 book, taker matcher, maker queue      *)
(* model, portfolio and SimBroker (src/src/btengine).                      *)
(*                                                                         *)
(* Numbers.  The code computes in floats; the model computes in integers:  *)
(*   - prices and quantities are small integers (exact as floats);         *)
(*   - a derived price (a taker's average price, a position's average      *)
(*     entry price) is held multiplied by PxScale;                         *)
(*   - a fee fraction is FeeNum / FeeDen, an amount of money (fee, pnl)    *)
(*     is held multiplied by PxScale * FeeDen;                             *)
(*   - trade_participation is a pair <<num, den>>.                         *)
(* A division goes through ExactDiv, which has no value when it leaves a   *)
(* remainder; the weighted average of Portfolio.apply_fill records a        *)
(* remainder in the portfolio's field exact, which the invariant Exact      *)
(* watches.  So no rounding is hidden.                                      *)
(***************************************************************************)
EXTENDS Integers, Sequences, FiniteSets, TLC

\* ------------------------------------------------------------------ bounds

\* The clock runs over 0..MaxTime.
MaxTime == 2
\* At most MaxFills fills are recorded in a run.
MaxFills == 2
\* At most MaxSeq delayed submits and cancels are made in a run.
MaxSeq == 2
\* Calls made on a Portfolio or an L2Book driven alone.
MaxCalls == 3
\* Events in the stream of a run of the engine.
MaxEvents == 3
\* Events in an input stream of merge_event_streams or slice_event_stream.
MaxLen == 2

\* Scale of derived prices (see the header).
PxScale == 720
\* Denominator of the fee fractions: maker 4/10000, taker 5/10000.
FeeDen == 10000
\* SimBroker.maker_fee_frac = 0.0004
MakerFeeNum == 4
\* SimBroker.taker_fee_frac = 0.0005
TakerFeeNum == 5

\* limit_price = None (no limit) and Order.price = None
None == -1
\* math.nan, the average price of an empty fill
NaN == -2

\* Book prices, the quantities a depth update sets a level to (0 removes
\* it), and the quantities of an order.
Prices == 1..3
LevelQtys == 0..2
OrderQtys == 1..2
Sides == {"buy", "sell"}
Symbols == {"BTCUSDT", "ETHUSDT"}

\* ----------------------------------------------------------------- helpers

Abs(x) == IF x < 0 THEN -x ELSE x
Min2(a, b) == IF a <= b THEN a ELSE b
SetMin(S) == CHOOSE x \in S : \A y \in S : x <= y
SetMax(S) == CHOOSE x \in S : \A y \in S : x >= y

\* a / b, defined only when the division is exact.
ExactDiv(a, b) == CHOOSE q \in {a \div b} : q * b = a

\* Python dict operations on a function whose domain is the set of keys.
DictGet(d, k, default) == IF k \in DOMAIN d THEN d[k] ELSE default
DictSet(d, k, v) == [x \in (DOMAIN d) \cup {k} |-> IF x = k THEN v ELSE d[x]]
DictPop(d, k) == [x \in (DOMAIN d) \ {k} |-> d[x]]
EmptyDict == [x \in {} |-> 0]

\* F of the value of v, v being computed once: a statement's result, used
\* by the statements after it.
Then(v, F(_)) == CHOOSE r \in {F(x) : x \in {v}} : TRUE

RECURSIVE SortedAsc(_)
SortedAsc(S) == IF S = {} THEN <<>>
                ELSE LET m == SetMin(S) IN <<m>> \o SortedAsc(S \ {m})
RECURSIVE SortedDesc(_)
SortedDesc(S) == IF S = {} THEN <<>>
                 ELSE LET m == SetMax(S) IN <<m>> \o SortedDesc(S \ {m})

\* ----------------------------------------------------------------- L2Book
\* A book is [bids, asks], each a dict price -> quantity.  The two lazy
\* heaps of the code hold every price ever set and are popped only at stale
\* tops, so best_bid / best_ask see every live key; they are modelled by
\* what they return: the best key whose quantity is positive.

\* An apply_level that stores whatever quantity it is given.
apply_level_any_quantity(book, side, price, quantity) ==
    IF side = "bid" THEN [book EXCEPT !.bids = DictSet(@, price, quantity)]
    ELSE [book EXCEPT !.asks = DictSet(@, price, quantity)]

\* L2Book.apply_level
apply_level(book, side, price, quantity) ==
    LET m == IF side = "bid" THEN book.bids ELSE book.asks
        m2 == IF quantity <= 0 THEN DictPop(m, price) ELSE DictSet(m, price, quantity)
    IN IF side = "bid" THEN [book EXCEPT !.bids = m2] ELSE [book EXCEPT !.asks = m2]

RECURSIVE apply_levels(_, _, _)
apply_levels(book, side, updates) ==
    IF updates = <<>> THEN book
    ELSE apply_levels(apply_level(book, side, Head(updates)[1], Head(updates)[2]),
                      side, Tail(updates))

\* L2Book.apply_depth_update: bids in call order, then asks in call order.
apply_depth_update(book, bid_updates, ask_updates) ==
    apply_levels(apply_levels(book, "bid", bid_updates), "ask", ask_updates)

\* L2Book.best_bid: None when no bid has a positive quantity.
best_bid(book) ==
    LET live == {p \in DOMAIN book.bids : book.bids[p] > 0}
    IN IF live = {} THEN None ELSE SetMax(live)

\* L2Book.best_ask
best_ask(book) ==
    LET live == {p \in DOMAIN book.asks : book.asks[p] > 0}
    IN IF live = {} THEN None ELSE SetMin(live)

\* ------------------------------------------------------------ taker matcher

\* A limit test that also stops at a level priced exactly at the limit.
taker_crosses_at_limit(side, limit_price, p) ==
    /\ limit_price # None
    /\ IF side = "buy" THEN p >= limit_price ELSE p <= limit_price

\* crosses(p) of consume_taker_fill: the level is beyond the limit.
taker_crosses(side, limit_price, p) ==
    /\ limit_price # None
    /\ IF side = "buy" THEN p > limit_price ELSE p < limit_price

\* The loop of consume_taker_fill over the sorted levels; acc is
\* [remaining, filled, cost, side_map].  A break leaves acc as it is.
RECURSIVE taker_walk(_, _, _, _, _)
taker_walk(levels, snapshot, side, limit_price, acc) ==
    IF levels = <<>> THEN acc
    ELSE LET price == Head(levels)
             lvl_qty == snapshot[price]
         IN IF acc.remaining <= 0 THEN acc
            ELSE IF lvl_qty <= 0
                 THEN taker_walk(Tail(levels), snapshot, side, limit_price, acc)
            ELSE IF taker_crosses(side, limit_price, price) THEN acc
            ELSE LET take == IF lvl_qty <= acc.remaining THEN lvl_qty ELSE acc.remaining
                     new_qty == lvl_qty - take
                     m2 == IF new_qty <= 0 THEN DictPop(acc.side_map, price)
                           ELSE DictSet(acc.side_map, price, new_qty)
                 IN taker_walk(Tail(levels), snapshot, side, limit_price,
                               [remaining |-> acc.remaining - take,
                                filled |-> acc.filled + take,
                                cost |-> acc.cost + take * price,
                                side_map |-> m2])

\* consume_taker_fill: [avg_px (scaled by PxScale, or NaN), filled_qty, book].
consume_taker_fill(book, side, quantity, limit_price) ==
    LET side_map == IF side = "buy" THEN book.asks ELSE book.bids
        levels == IF side = "buy" THEN SortedAsc(DOMAIN side_map)
                  ELSE SortedDesc(DOMAIN side_map)
    IN Then(taker_walk(levels, side_map, side, limit_price,
                       [remaining |-> quantity, filled |-> 0, cost |-> 0,
                        side_map |-> side_map]), LAMBDA r :
       Then(IF side = "buy" THEN [book EXCEPT !.asks = r.side_map]
            ELSE [book EXCEPT !.bids = r.side_map], LAMBDA book2 :
          IF r.filled <= 0
          THEN [avg_px |-> NaN, filled_qty |-> 0, book |-> book2]
          ELSE [avg_px |-> ExactDiv(r.cost * PxScale, r.filled),
                filled_qty |-> r.filled, book |-> book2]))

\* --------------------------------------------------- L2Book with its heaps
\* The book as the code holds it is [bids, asks, bid_heap, ask_heap].  A
\* heap is the bag of its entries, a dict entry -> number of copies: heapq
\* keeps the least entry at heap[0] and heappop removes one copy of it, the
\* order of the rest of the list being unobservable.  _bid_heap stores
\* -price, _ask_heap stores price.

EmptyHeapBook == [bids |-> EmptyDict, asks |-> EmptyDict,
                  bid_heap |-> EmptyDict, ask_heap |-> EmptyDict]

\* len(heap)
RECURSIVE heap_len(_)
heap_len(h) ==
    IF DOMAIN h = {} THEN 0
    ELSE LET x == SetMin(DOMAIN h) IN h[x] + heap_len(DictPop(h, x))

\* heapq.heappush(heap, x)
heappush(h, x) == DictSet(h, x, DictGet(h, x, 0) + 1)

\* heapq.heappop(heap): the heap without one copy of heap[0]
heappop(h) ==
    LET x == SetMin(DOMAIN h)
    IN IF h[x] = 1 THEN DictPop(h, x) ELSE DictSet(h, x, h[x] - 1)

\* heapq.heapify of a list of distinct keys
heapify(keys) == [x \in keys |-> 1]

\* L2Book._maybe_rebuild_heaps
maybe_rebuild_heaps(b) ==
    Then(IF heap_len(b.bid_heap) > Cardinality(DOMAIN b.bids) * 4 + 1000
         THEN [b EXCEPT !.bid_heap = heapify({-p : p \in DOMAIN b.bids})]
         ELSE b, LAMBDA b1 :
         IF heap_len(b1.ask_heap) > Cardinality(DOMAIN b1.asks) * 4 + 1000
         THEN [b1 EXCEPT !.ask_heap = heapify(DOMAIN b1.asks)]
         ELSE b1)

\* L2Book.apply_level, heaps included
apply_level_heap(b, side, price, quantity) ==
    IF quantity <= 0
    THEN IF side = "bid" THEN [b EXCEPT !.bids = DictPop(@, price)]
         ELSE [b EXCEPT !.asks = DictPop(@, price)]
    ELSE IF side = "bid"
         THEN [b EXCEPT !.bids = DictSet(@, price, quantity),
                        !.bid_heap = heappush(@, -price)]
         ELSE [b EXCEPT !.asks = DictSet(@, price, quantity),
                        !.ask_heap = heappush(@, price)]

\* n calls of apply_level with the same arguments, one after the other:
\* the first call, then n - 1 calls that each write the same quantity again
\* and, when it is positive, push one more copy of the price.
apply_level_heap_times(b, side, price, quantity, n) ==
    IF n = 0 THEN b
    ELSE Then(apply_level_heap(b, side, price, quantity), LAMBDA b1 :
            IF quantity <= 0 THEN b1
            ELSE IF side = "bid"
                 THEN [b1 EXCEPT !.bid_heap = DictSet(@, -price, @[-price] + n - 1)]
                 ELSE [b1 EXCEPT !.ask_heap = DictSet(@, price, @[price] + n - 1)])

RECURSIVE apply_levels_heap(_, _, _)
apply_levels_heap(b, side, updates) ==
    IF updates = <<>> THEN b
    ELSE apply_levels_heap(apply_level_heap(b, side, Head(updates)[1], Head(updates)[2]),
                           side, Tail(updates))

\* L2Book.apply_depth_update, heaps included
apply_depth_update_heap(b, bid_updates, ask_updates) ==
    apply_levels_heap(apply_levels_heap(b, "bid", bid_updates), "ask", ask_updates)

\* A staleness test by which no heap entry is ever stale.
heap_stale_never(m, price) == FALSE

\* qty = side.get(price); qty is None or qty <= 0.0
heap_stale(m, price) == price \notin DOMAIN m \/ m[price] <= 0

\* The while loop of best_bid: [book, price], price None when the heap ran out.
RECURSIVE best_bid_loop(_)
best_bid_loop(b) ==
    IF DOMAIN b.bid_heap = {} THEN [book |-> b, price |-> None]
    ELSE LET price == -SetMin(DOMAIN b.bid_heap)
         IN IF heap_stale(b.bids, price)
            THEN best_bid_loop([b EXCEPT !.bid_heap = heappop(@)])
            ELSE [book |-> b, price |-> price]

\* L2Book.best_bid: the book it leaves and the price it returns
best_bid_heap(b) == best_bid_loop(maybe_rebuild_heaps(b))

RECURSIVE best_ask_loop(_)
best_ask_loop(b) ==
    IF DOMAIN b.ask_heap = {} THEN [book |-> b, price |-> None]
    ELSE LET price == SetMin(DOMAIN b.ask_heap)
         IN IF heap_stale(b.asks, price)
            THEN best_ask_loop([b EXCEPT !.ask_heap = heappop(@)])
            ELSE [book |-> b, price |-> price]

\* L2Book.best_ask
best_ask_heap(b) == best_ask_loop(maybe_rebuild_heaps(b))

\* L2Book.mid_price: best_bid(), then best_ask() on the book that left; the
\* mid in units of 1 / PxScale.
mid_price_heap(b) ==
    Then(best_bid_heap(b), LAMBDA bid :
    Then(best_ask_heap(bid.book), LAMBDA ask :
         [book |-> ask.book,
          price |-> IF bid.price = None \/ ask.price = None THEN None
                    ELSE ((bid.price + ask.price) * PxScale) \div 2]))

\* The heap after consume_taker_fill turned side map m into m2: one push
\* for each level left with a smaller quantity (a level taken whole is
\* popped from the map and its heap entries stay).
RECURSIVE push_lowered(_, _, _, _, _)
push_lowered(h, prices, m, m2, sign) ==
    IF prices = {} THEN h
    ELSE LET p == SetMin(prices)
         IN push_lowered(IF m2[p] # m[p] THEN heappush(h, sign * p) ELSE h,
                         prices \ {p}, m, m2, sign)

\* consume_taker_fill, heaps included: [avg_px, filled_qty, book]
consume_taker_fill_heap(b, side, quantity, limit_price) ==
    Then(consume_taker_fill([bids |-> b.bids, asks |-> b.asks], side, quantity,
                            limit_price), LAMBDA r :
         [avg_px |-> r.avg_px, filled_qty |-> r.filled_qty,
          book |-> IF side = "buy"
                   THEN [b EXCEPT !.asks = r.book.asks,
                                  !.ask_heap = push_lowered(@, DOMAIN r.book.asks,
                                                            b.asks, r.book.asks, 1)]
                   ELSE [b EXCEPT !.bids = r.book.bids,
                                  !.bid_heap = push_lowered(@, DOMAIN r.book.bids,
                                                            b.bids, r.book.bids, -1)]])

\* --------------------------------------------------------- maker queue model
\* A MakerQueueOrder is [symbol, side, price, quantity, queue_ahead_qty,
\* filled_qty, trade_participation]; a Trade is [symbol, price, quantity,
\* is_buyer_maker].

\* A remaining quantity that forgets what was filled.
remaining_qty_unfilled(mo) == mo.quantity

\* MakerQueueOrder.remaining_qty
remaining_qty(mo) ==
    LET rem == mo.quantity - mo.filled_qty IN IF rem > 0 THEN rem ELSE 0

\* A completion test that misses the order filled exactly.
is_filled_strict(mo) == remaining_qty(mo) < 0

\* MakerQueueOrder.is_filled
is_filled(mo) == remaining_qty(mo) <= 0

\* A visible-quantity update that also follows increases.
on_book_qty_update_follows(mo, new_visible_qty) ==
    [mo EXCEPT !.queue_ahead_qty = new_visible_qty]

\* MakerQueueOrder.on_book_qty_update: if new_visible_qty < 0: raise
on_book_qty_update_raises(new_visible_qty) == new_visible_qty < 0

\* MakerQueueOrder.on_book_qty_update; the order as the call leaves it,
\* which is as it was when the call raises.
on_book_qty_update(mo, new_visible_qty) ==
    IF on_book_qty_update_raises(new_visible_qty) THEN mo
    ELSE IF new_visible_qty < mo.queue_ahead_qty
         THEN [mo EXCEPT !.queue_ahead_qty = new_visible_qty]
    ELSE mo

\* A side test that lets the aggressor of either side through.
trade_hits_any_side(mo, trade) == TRUE

\* The side test of MakerQueueOrder.on_trade: the aggressor hits our side.
trade_hits_side(mo, trade) ==
    IF mo.side = "buy" THEN trade.is_buyer_maker ELSE ~trade.is_buyer_maker

\* v = trade.quantity * trade_participation
effective_volume(mo, trade) ==
    ExactDiv(trade.quantity * mo.trade_participation[1], mo.trade_participation[2])

\* MakerQueueOrder.on_trade: [mo, fill], the order after the trade and the
\* quantity the trade filled.
on_trade(mo, trade) ==
    IF trade.symbol # mo.symbol THEN [mo |-> mo, fill |-> 0]
    ELSE IF is_filled(mo) THEN [mo |-> mo, fill |-> 0]
    ELSE IF trade.price # mo.price THEN [mo |-> mo, fill |-> 0]
    ELSE IF ~trade_hits_side(mo, trade) THEN [mo |-> mo, fill |-> 0]
    ELSE LET v == effective_volume(mo, trade)
         IN IF v <= 0 THEN [mo |-> mo, fill |-> 0]
            ELSE IF mo.queue_ahead_qty >= v
                 THEN [mo |-> [mo EXCEPT !.queue_ahead_qty = @ - v], fill |-> 0]
            ELSE LET remaining_after_queue == v - mo.queue_ahead_qty
                     fill == Min2(remaining_qty(mo), remaining_after_queue)
                 IN [mo |-> [mo EXCEPT !.queue_ahead_qty = 0,
                                       !.filled_qty = @ + fill],
                     fill |-> fill]

\* -------------------------------------------------------------- portfolio
\* A Portfolio is [realized_pnl_usdt, fees_paid_usdt, positions]; positions
\* is a dict symbol -> [qty, avg_price].  avg_price and the fill price are
\* scaled by PxScale, money by PxScale * FeeDen.

\* The field exact is not in the code: it turns FALSE, for good, when a
\* weighted average does not fit the scale (Exact below checks it never does).
\* The field dust is the code's threshold 1e-12 counted, rounded down, in
\* the unit the portfolio's quantities are counted in: 0 when a quantity of
\* 1 stands for 1.0 (as in the broker's specifications), DustQty when it
\* stands for 2^-41 (SpecPortfolio).
NewPortfolio == [realized_pnl_usdt |-> 0, fees_paid_usdt |-> 0,
                 positions |-> EmptyDict, exact |-> TRUE, dust |-> 0]

\* closed_qty * (price - avg_price) * (+1 long / -1 short), as money.
close_pnl_as_long(closed_qty, price, pos) ==
    closed_qty * (price - pos.avg_price) * FeeDen

close_pnl(closed_qty, price, pos) ==
    closed_qty * (price - pos.avg_price) * (IF pos.qty > 0 THEN 1 ELSE -1) * FeeDen

\* if abs(new_qty) <= 1e-12: new_qty = 0.0
snap_never(dust, new_qty) == new_qty

snap(dust, new_qty) == IF Abs(new_qty) <= dust THEN 0 ELSE new_qty

\* fees_paid_usdt += fee_usdt; realized_pnl_usdt -= fee_usdt
charge_fee_as_rebate(pf, fee_usdt) ==
    [pf EXCEPT !.fees_paid_usdt = @ - fee_usdt, !.realized_pnl_usdt = @ + fee_usdt]

\* A charge that is not the fee of the fill: one unit more.
charge_fee_and_more(pf, fee_usdt) ==
    [pf EXCEPT !.fees_paid_usdt = @ + fee_usdt + 1, !.realized_pnl_usdt = @ - fee_usdt - 1]

charge_fee(pf, fee_usdt) ==
    [pf EXCEPT !.fees_paid_usdt = @ + fee_usdt, !.realized_pnl_usdt = @ - fee_usdt]

\* closed_qty of a flip, as if only the fill's quantity beyond nothing closed.
flip_closed_qty_of_fill(pos, signed) == Abs(signed)

\* Position flipped direction: closed_qty = abs(pos.qty)
flip_closed_qty(pos, signed) == Abs(pos.qty)

\* The notional of an increased position, as if all of it traded at price.
increase_notional_at_price(pos, signed, price) ==
    (Abs(pos.qty) + Abs(signed)) * price

\* old_notional + add_notional
increase_notional(pos, signed, price) ==
    Abs(pos.qty) * pos.avg_price + Abs(signed) * price

\* Portfolio.apply_fill
apply_fill(pf, symbol, side, qty, price, fee_usdt) ==
    IF qty <= 0 THEN pf
    ELSE
    LET pos == DictGet(pf.positions, symbol, [qty |-> 0, avg_price |-> 0])
        signed == IF side = "buy" THEN qty ELSE -qty
        new_qty == snap(pf.dust, pos.qty + signed)
        charged == charge_fee(pf, fee_usdt)
        rpnl == charged.realized_pnl_usdt
        wavg_num == increase_notional(pos, signed, price)
        Out(r, q, a) == [charged EXCEPT
                            !.realized_pnl_usdt = r,
                            !.positions = DictSet(pf.positions, symbol,
                                                  [qty |-> q, avg_price |-> a])]
    IN IF new_qty = 0 /\ pos.qty # 0
       THEN Out(rpnl + close_pnl(Abs(pos.qty), price, pos), 0, 0)
       ELSE IF pos.qty = 0 \/ (pos.qty > 0 /\ new_qty > 0) \/ (pos.qty < 0 /\ new_qty < 0)
       THEN IF new_qty = 0 THEN Out(rpnl, 0, 0)
            ELSE IF pos.qty = 0 THEN Out(rpnl, new_qty, price)
            ELSE IF Abs(new_qty) > Abs(pos.qty)
                 THEN [Out(rpnl, new_qty, wavg_num \div Abs(new_qty)) EXCEPT
                          !.exact = @ /\ wavg_num % Abs(new_qty) = 0]
            ELSE Out(rpnl + close_pnl(Abs(signed), price, pos), new_qty,
                     IF new_qty = 0 THEN 0 ELSE pos.avg_price)
       ELSE Out(rpnl + close_pnl(flip_closed_qty(pos, signed), price, pos), new_qty, price)

\* An apply_funding by which a long receives when the rate is positive.
apply_funding_long_receives(pf, symbol, mark_price, funding_rate_num) ==
    IF symbol \notin DOMAIN pf.positions \/ pf.positions[symbol].qty = 0
    THEN [pf |-> pf, pnl |-> 0]
    ELSE LET pos == pf.positions[symbol]
             pnl == (pos.qty * mark_price) * funding_rate_num
         IN [pf |-> [pf EXCEPT !.realized_pnl_usdt = @ + pnl], pnl |-> pnl]

\* Portfolio.apply_funding: the portfolio after the call and the pnl it
\* returns.  mark_price is scaled by PxScale, funding_rate is
\* funding_rate_num / FeeDen, so the pnl is money.
apply_funding(pf, symbol, mark_price, funding_rate_num) ==
    IF symbol \notin DOMAIN pf.positions \/ pf.positions[symbol].qty = 0
    THEN [pf |-> pf, pnl |-> 0]
    ELSE LET pos == pf.positions[symbol]
             pnl == -(pos.qty * mark_price) * funding_rate_num
         IN [pf |-> [pf EXCEPT !.realized_pnl_usdt = @ + pnl], pnl |-> pnl]

\* -------------------------------------------------------------- SimBroker
\* An Order is [id, symbol, side, order_type, quantity, price,
\* time_in_force, post_only].  A broker with its book is the record
\*   [cfg, book, maker_orders, pending_submits, pending_cancels, seq,
\*    canceled, fills, portfolio]
\* cfg: [submit_latency_ms, cancel_latency_ms, maker_queue_ahead_factor,
\*       maker_queue_ahead_extra_qty, maker_trade_participation,
\*       maker_fee_frac, taker_fee_frac], the fee fractions as numerators
\*       over FeeDen, the participation as <<numerator, denominator>>.
\* maker_orders is the dict _maker_orders in insertion order: a sequence of
\* [id, mo].  pending_submits and pending_cancels are the two heaps: sets of
\* (due, seq, ...) entries, popped smallest (due, seq) first.

\* _maker_orders[id] = mo: an existing key keeps its place.
MakerSet(ms, id, mo) ==
    IF \E i \in 1..Len(ms) : ms[i].id = id
    THEN [i \in 1..Len(ms) |-> IF ms[i].id = id THEN [id |-> id, mo |-> mo] ELSE ms[i]]
    ELSE Append(ms, [id |-> id, mo |-> mo])

\* _maker_orders.pop(id, None)
MakerPop(ms, id) == SelectSeq(ms, LAMBDA e : e.id # id)

MakerIds(ms) == {ms[i].id : i \in 1..Len(ms)}
MakerOf(ms, id) == (CHOOSE i \in 1..Len(ms) : ms[i].id = id)

\* The entry a max-heap would hold on top: the latest due, the last pushed.
HeapTopLatest(h) == CHOOSE e \in h : \A f \in h :
                        e.due > f.due \/ (e.due = f.due /\ e.seq >= f.seq)

\* The entry heapq.heappop returns: least due, then least seq.
HeapTop(h) == CHOOSE e \in h : \A f \in h :
                  e.due < f.due \/ (e.due = f.due /\ e.seq <= f.seq)

\* A crossing test that lets an order touching the best opposite price pass.
limit_crosses_strict(order, book) ==
    IF order.side = "buy"
    THEN best_ask(book) # None /\ order.price > best_ask(book)
    ELSE best_bid(book) # None /\ order.price < best_bid(book)

\* crosses() of SimBroker._submit_now
limit_crosses(order, book) ==
    IF order.side = "buy"
    THEN best_ask(book) # None /\ order.price >= best_ask(book)
    ELSE best_bid(book) # None /\ order.price <= best_bid(book)

\* An _open_maker that also shows the order in the book, on top of the
\* level's visible quantity.
open_maker_in_book(w, order) ==
    LET visible == IF order.side = "buy" THEN DictGet(w.book.bids, order.price, 0)
                   ELSE DictGet(w.book.asks, order.price, 0)
    IN [w EXCEPT !.book = apply_level(@, IF order.side = "buy" THEN "bid" ELSE "ask",
                                      order.price, visible + order.quantity),
                 !.maker_orders =
                    MakerSet(@, order.id,
                             [symbol |-> order.symbol, side |-> order.side,
                              price |-> order.price, quantity |-> order.quantity,
                              queue_ahead_qty |-> visible, filled_qty |-> 0,
                              trade_participation |-> w.cfg.maker_trade_participation])]

\* An _open_maker that queues behind the whole of its side, not only
\* behind the level at its price.
open_maker_behind_side(w, order) ==
    LET m == IF order.side = "buy" THEN w.book.bids ELSE w.book.asks
        visible == IF DOMAIN m = {} THEN 0
                   ELSE m[SetMax(DOMAIN m)] + m[SetMin(DOMAIN m)]
        q_ahead == visible * w.cfg.maker_queue_ahead_factor
                   + w.cfg.maker_queue_ahead_extra_qty
    IN [w EXCEPT !.maker_orders =
           MakerSet(@, order.id,
                    [symbol |-> order.symbol, side |-> order.side,
                     price |-> order.price, quantity |-> order.quantity,
                     queue_ahead_qty |-> q_ahead, filled_qty |-> 0,
                     trade_participation |-> w.cfg.maker_trade_participation])]

\* SimBroker._open_maker
open_maker(w, order) ==
    LET visible == IF order.side = "buy" THEN DictGet(w.book.bids, order.price, 0)
                   ELSE DictGet(w.book.asks, order.price, 0)
        q_ahead == visible * w.cfg.maker_queue_ahead_factor
                   + w.cfg.maker_queue_ahead_extra_qty
    IN [w EXCEPT !.maker_orders =
           MakerSet(@, order.id,
                    [symbol |-> order.symbol, side |-> order.side,
                     price |-> order.price, quantity |-> order.quantity,
                     queue_ahead_qty |-> q_ahead, filled_qty |-> 0,
                     trade_participation |-> w.cfg.maker_trade_participation])]

\* A taker fill that drops the limit price.
fill_taker_no_limit(w, order, now_ms, limit_price) ==
    Then(consume_taker_fill(w.book, order.side, order.quantity, None), LAMBDA r :
    Then([w EXCEPT !.book = r.book], LAMBDA w1 :
       IF r.filled_qty <= 0 \/ r.avg_px = NaN
       THEN [w |-> w1, filled_qty |-> 0]
       ELSE Then(r.filled_qty * r.avg_px * w.cfg.taker_fee_frac, LAMBDA fee :
               [w |-> [w1 EXCEPT
                       !.portfolio = apply_fill(@, order.symbol, order.side,
                                                r.filled_qty, r.avg_px, fee),
                       !.fills = Append(@, [order_id |-> order.id,
                                            symbol |-> order.symbol,
                                            side |-> order.side,
                                            quantity |-> r.filled_qty,
                                            price |-> r.avg_px,
                                            fee_usdt |-> fee,
                                            event_time_ms |-> now_ms,
                                            liquidity |-> "taker"])],
                filled_qty |-> r.filled_qty])))

\* SimBroker._fill_taker: [w, filled_qty]
fill_taker(w, order, now_ms, limit_price) ==
    Then(consume_taker_fill(w.book, order.side, order.quantity, limit_price), LAMBDA r :
    Then([w EXCEPT !.book = r.book], LAMBDA w1 :
       IF r.filled_qty <= 0 \/ r.avg_px = NaN
       THEN [w |-> w1, filled_qty |-> 0]
       ELSE Then(r.filled_qty * r.avg_px * w.cfg.taker_fee_frac, LAMBDA fee :
               [w |-> [w1 EXCEPT
                       !.portfolio = apply_fill(@, order.symbol, order.side,
                                                r.filled_qty, r.avg_px, fee),
                       !.fills = Append(@, [order_id |-> order.id,
                                            symbol |-> order.symbol,
                                            side |-> order.side,
                                            quantity |-> r.filled_qty,
                                            price |-> r.avg_px,
                                            fee_usdt |-> fee,
                                            event_time_ms |-> now_ms,
                                            liquidity |-> "taker"])],
                filled_qty |-> r.filled_qty])))

\* A routing that rests the whole of a crossing GTC order after its taker fill.
submit_now_rests_all(w, order, now_ms) ==
    IF order.order_type = "market"
    THEN fill_taker(w, order, now_ms, None).w
    ELSE IF order.post_only
         THEN IF limit_crosses(order, w.book) THEN w ELSE open_maker(w, order)
    ELSE IF order.time_in_force = "IOC"
         THEN fill_taker(w, order, now_ms, order.price).w
    ELSE IF limit_crosses(order, w.book)
         THEN open_maker(fill_taker(w, order, now_ms, order.price).w, order)
    ELSE open_maker(w, order)

\* SimBroker._submit_now
submit_now(w, order, now_ms) ==
    IF order.order_type = "market"
    THEN fill_taker(w, order, now_ms, None).w
    ELSE IF order.post_only
         THEN IF limit_crosses(order, w.book) THEN w ELSE open_maker(w, order)
    ELSE IF order.time_in_force = "IOC"
         THEN fill_taker(w, order, now_ms, order.price).w
    ELSE IF limit_crosses(order, w.book)
         THEN LET f == fill_taker(w, order, now_ms, order.price)
                  remaining == order.quantity - f.filled_qty
              IN IF remaining > 0
                 THEN open_maker(f.w, [order EXCEPT !.quantity = remaining,
                                                    !.time_in_force = "GTC",
                                                    !.post_only = FALSE])
                 ELSE f.w
    ELSE open_maker(w, order)

\* A submit that ignores submit_latency_ms.
submit_no_latency(w, order, now_ms) == submit_now(w, order, now_ms)

\* SimBroker.submit
submit(w, order, now_ms) ==
    IF w.cfg.submit_latency_ms > 0
    THEN [w EXCEPT !.seq = @ + 1,
                   !.pending_submits = @ \cup
                       {[due |-> now_ms + w.cfg.submit_latency_ms,
                         seq |-> w.seq + 1, order |-> order]}]
    ELSE submit_now(w, order, now_ms)

\* A cancel that forgets to flag the id.
cancel_now_no_flag(w, order_id) ==
    [w EXCEPT !.maker_orders = MakerPop(@, order_id)]

\* A cancel that flags the id and leaves the resting order.
cancel_now_flag_only(w, order_id) ==
    [w EXCEPT !.canceled = @ \cup {order_id}]

\* A cancel that also takes the order's level out of the book.
cancel_now_off_book(w, order_id) ==
    [w EXCEPT !.maker_orders = MakerPop(@, order_id),
              !.canceled = @ \cup {order_id},
              !.book = IF order_id \in MakerIds(w.maker_orders)
                       THEN LET mo == w.maker_orders[MakerOf(w.maker_orders, order_id)].mo
                            IN apply_level(@, IF mo.side = "buy" THEN "bid" ELSE "ask",
                                           mo.price, 0)
                       ELSE @]

\* SimBroker._cancel_now
cancel_now(w, order_id) ==
    [w EXCEPT !.maker_orders = MakerPop(@, order_id),
              !.canceled = @ \cup {order_id}]

\* SimBroker.cancel; now_ms = None when the caller gives no time.
cancel(w, order_id, now_ms) ==
    IF w.cfg.cancel_latency_ms > 0 /\ now_ms # None
    THEN [w EXCEPT !.seq = @ + 1,
                   !.pending_cancels = @ \cup
                       {[due |-> now_ms + w.cfg.cancel_latency_ms,
                         seq |-> w.seq + 1, order_id |-> order_id]}]
    ELSE cancel_now(w, order_id)

\* The first loop of SimBroker.on_time: the due cancels.
RECURSIVE drain_cancels(_, _)
drain_cancels(w, now) ==
    IF w.pending_cancels # {} /\ HeapTop(w.pending_cancels).due <= now
    THEN LET e == HeapTop(w.pending_cancels)
         IN drain_cancels(cancel_now([w EXCEPT !.pending_cancels = @ \ {e}],
                                     e.order_id), now)
    ELSE w

\* The second loop of SimBroker.on_time: the due submits.
RECURSIVE drain_submits(_, _)
drain_submits(w, now) ==
    IF w.pending_submits # {} /\ HeapTop(w.pending_submits).due <= now
    THEN LET e == HeapTop(w.pending_submits)
             w1 == [w EXCEPT !.pending_submits = @ \ {e}]
         IN IF e.order.id \in w1.canceled
            THEN drain_submits([w1 EXCEPT !.canceled = @ \ {e.order.id}], now)
            ELSE drain_submits(submit_now(w1, e.order, now), now)
    ELSE w

\* An on_time that drains the due submits before the due cancels.
on_time_submits_first(w, now_ms) ==
    drain_cancels(drain_submits(w, now_ms), now_ms)

\* An on_time whose discarded submits leave their flags set.
on_time_keeps_flags(w, now_ms) ==
    [drain_submits(drain_cancels(w, now_ms), now_ms) EXCEPT
        !.canceled = drain_cancels(w, now_ms).canceled]

\* SimBroker.on_time
on_time(w, now_ms) == drain_submits(drain_cancels(w, now_ms), now_ms)

\* The inner loop of SimBroker.on_depth_update: the first touched entry at
\* our price updates the queue, the rest are not looked at (break).
RECURSIVE touch_first(_, _)
touch_first(mo, touched) ==
    IF touched = <<>> THEN mo
    ELSE IF Head(touched)[1] = mo.price
         THEN on_book_qty_update(mo, Head(touched)[2])
    ELSE touch_first(mo, Tail(touched))

\* A pass that looks at the updates of both sides and of any symbol.
depth_touch_any_side(mo, update) ==
    touch_first(mo, update.bid_updates \o update.ask_updates)

\* One resting order's pass through SimBroker.on_depth_update.
depth_touch(mo, update) ==
    IF mo.symbol # update.symbol THEN mo
    ELSE touch_first(mo, IF mo.side = "buy" THEN update.bid_updates
                         ELSE update.ask_updates)

\* The first touched entry at our price is one on_book_qty_update raises on.
RECURSIVE touch_first_raises(_, _)
touch_first_raises(mo, touched) ==
    IF touched = <<>> THEN FALSE
    ELSE IF Head(touched)[1] = mo.price
         THEN on_book_qty_update_raises(Head(touched)[2])
    ELSE touch_first_raises(mo, Tail(touched))

\* One resting order's pass through SimBroker.on_depth_update raises.
depth_touch_raises(mo, update) ==
    /\ mo.symbol = update.symbol
    /\ touch_first_raises(mo, IF mo.side = "buy" THEN update.bid_updates
                              ELSE update.ask_updates)

\* The place in list(_maker_orders.items()) of the first order whose pass
\* raises, where the loop of SimBroker.on_depth_update ends; past the end
\* of the list when none raises.
depth_loop_end(w, update) ==
    LET raising == {i \in 1..Len(w.maker_orders) :
                      depth_touch_raises(w.maker_orders[i].mo, update)}
    IN IF raising = {} THEN Len(w.maker_orders) + 1
       ELSE CHOOSE i \in raising : \A j \in raising : i <= j

\* SimBroker.on_depth_update raises ValueError (from on_book_qty_update).
on_depth_update_raises(w, update) == depth_loop_end(w, update) <= Len(w.maker_orders)

\* SimBroker.on_depth_update; update is [symbol, bid_updates, ask_updates].
\* The broker as the call leaves it: the book is written first and whole;
\* the orders before the one whose pass raises are touched and, if filled,
\* removed; that order and those after it stay as they were.
on_depth_update(w, update) ==
    LET book2 == apply_depth_update(w.book, update.bid_updates, update.ask_updates)
        stop == depth_loop_end(w, update)
        touched == [i \in 1..Len(w.maker_orders) |->
                      [id |-> w.maker_orders[i].id,
                       mo |-> IF i < stop
                              THEN depth_touch(w.maker_orders[i].mo, update)
                              ELSE w.maker_orders[i].mo,
                       passed |-> i < stop]]
        kept == SelectSeq(touched,
                          LAMBDA e : ~(e.passed /\ e.mo.symbol = update.symbol
                                        /\ is_filled(e.mo)))
    IN [w EXCEPT !.book = book2,
                 !.maker_orders = [i \in 1..Len(kept) |->
                                     [id |-> kept[i].id, mo |-> kept[i].mo]]]

\* The loop of SimBroker.on_trade over list(_maker_orders.items()): items is
\* the snapshot still to visit.
RECURSIVE trade_loop(_, _, _, _)
trade_loop(w, items, trade, now_ms) ==
    IF items = <<>> THEN w
    ELSE LET order_id == Head(items).id
             r == on_trade(Head(items).mo, trade)
             w1 == [w EXCEPT !.maker_orders = MakerSet(@, order_id, r.mo)]
         IN IF r.fill <= 0 THEN trade_loop(w1, Tail(items), trade, now_ms)
            ELSE LET fee == r.fill * trade.price * PxScale * w.cfg.maker_fee_frac
                     w2 == [w1 EXCEPT
                            !.portfolio = apply_fill(@, r.mo.symbol, r.mo.side, r.fill,
                                                     trade.price * PxScale, fee),
                            !.fills = Append(@, [order_id |-> order_id,
                                                 symbol |-> r.mo.symbol,
                                                 side |-> r.mo.side,
                                                 quantity |-> r.fill,
                                                 price |-> trade.price * PxScale,
                                                 fee_usdt |-> fee,
                                                 event_time_ms |-> now_ms,
                                                 liquidity |-> "maker"]),
                            !.maker_orders = IF is_filled(r.mo)
                                             THEN MakerPop(@, order_id) ELSE @]
                 IN trade_loop(w2, Tail(items), trade, now_ms)

\* An on_trade whose trade is spent on the first resting order.
broker_on_trade_first_only(w, trade, now_ms) ==
    trade_loop(w, SubSeq(w.maker_orders, 1, IF w.maker_orders = <<>> THEN 0 ELSE 1),
               trade, now_ms)

\* SimBroker.on_trade
broker_on_trade(w, trade, now_ms) == trade_loop(w, w.maker_orders, trade, now_ms)

\* ------------------------------------------------- the calls, as they end
\* A call of the broker either returns or lets a ValueError escape.  The
\* operators below follow the same code as submit, on_time and on_trade
\* above and give [w, raised]: the broker as the call leaves it, and
\* whether it raised.  Where nothing raises, w is what the operator above
\* gives.

Done(w) == [w |-> w, raised |-> FALSE]
Raised(w) == [w |-> w, raised |-> TRUE]

\* SimBroker.on_depth_update
on_depth_update_or_raise(w, update) ==
    IF on_depth_update_raises(w, update) THEN Raised(on_depth_update(w, update))
    ELSE Done(on_depth_update(w, update))

\* consume_taker_fill: if quantity <= 0: raise ValueError
taker_raises(order) == order.quantity <= 0

\* SimBroker._open_maker: the two checks of the queue parameters
open_maker_raises(w) ==
    \/ w.cfg.maker_queue_ahead_factor < 0
    \/ w.cfg.maker_queue_ahead_extra_qty < 0

\* SimBroker._submit_now
submit_now_or_raise(w, order, now_ms) ==
    IF order.order_type = "market"
    THEN IF taker_raises(order) THEN Raised(w) ELSE Done(submit_now(w, order, now_ms))
    ELSE IF order.order_type # "limit" THEN Raised(w)
    ELSE IF order.price = None THEN Raised(w)
    ELSE IF order.post_only
         THEN IF limit_crosses(order, w.book) THEN Done(w)
              ELSE IF open_maker_raises(w) THEN Raised(w)
              ELSE Done(submit_now(w, order, now_ms))
    ELSE IF order.time_in_force = "IOC"
         THEN IF taker_raises(order) THEN Raised(w)
              ELSE Done(submit_now(w, order, now_ms))
    ELSE IF limit_crosses(order, w.book)
         THEN IF taker_raises(order) THEN Raised(w)
              ELSE Then(fill_taker(w, order, now_ms, order.price), LAMBDA f :
                      IF order.quantity - f.filled_qty > 0 /\ open_maker_raises(f.w)
                      THEN Raised(f.w)
                      ELSE Done(submit_now(w, order, now_ms)))
    ELSE IF open_maker_raises(w) THEN Raised(w)
    ELSE Done(submit_now(w, order, now_ms))

\* SimBroker.submit
submit_or_raise(w, order, now_ms) ==
    IF w.cfg.submit_latency_ms > 0 THEN Done(submit(w, order, now_ms))
    ELSE submit_now_or_raise(w, order, now_ms)

\* The second loop of SimBroker.on_time: the entry is popped, then routed;
\* a ValueError of the routing leaves the loop.
RECURSIVE drain_submits_or_raise(_, _)
drain_submits_or_raise(w, now_ms) ==
    IF w.pending_submits # {} /\ HeapTop(w.pending_submits).due <= now_ms
    THEN LET e == HeapTop(w.pending_submits)
         IN Then([w EXCEPT !.pending_submits = @ \ {e}], LAMBDA w1 :
               IF e.order.id \in w1.canceled
               THEN drain_submits_or_raise([w1 EXCEPT !.canceled = @ \ {e.order.id}],
                                           now_ms)
               ELSE Then(submit_now_or_raise(w1, e.order, now_ms), LAMBDA r :
                       IF r.raised THEN r ELSE drain_submits_or_raise(r.w, now_ms)))
    ELSE Done(w)

\* SimBroker.on_time
on_time_or_raise(w, now_ms) ==
    Then(drain_cancels(w, now_ms), LAMBDA w1 : drain_submits_or_raise(w1, now_ms))

\* MakerQueueOrder.on_trade: the check of trade_participation, reached by a
\* trade at the order's price against its side while it is unfilled.
on_trade_raises(mo, trade) ==
    /\ trade.symbol = mo.symbol
    /\ ~is_filled(mo)
    /\ trade.price = mo.price
    /\ trade_hits_side(mo, trade)
    /\ ~(0 < mo.trade_participation[1]
          /\ mo.trade_participation[1] <= mo.trade_participation[2])

\* SimBroker.on_trade: the orders before the one that raises are served.
RECURSIVE trade_loop_or_raise(_, _, _, _)
trade_loop_or_raise(w, items, trade, now_ms) ==
    IF items = <<>> THEN Done(w)
    ELSE IF on_trade_raises(Head(items).mo, trade) THEN Raised(w)
    ELSE Then(trade_loop(w, <<Head(items)>>, trade, now_ms), LAMBDA w1 :
            trade_loop_or_raise(w1, Tail(items), trade, now_ms))

broker_on_trade_or_raise(w, trade, now_ms) ==
    trade_loop_or_raise(w, w.maker_orders, trade, now_ms)

\* ----------------------------------------------------------------- engine
\* A run of BacktestEngine is the record
\*   [w, now_ms, ctx, calls]
\* w: the broker with the book of BTCUSDT (the events of the model carry
\* depth for that symbol only, so ctx.books holds this one book);
\* now_ms: ctx.now_ms; ctx: [tick_interval_ms, next_tick_ms, mark, ticker,
\* last_funding_applied_ms, phase], the rest of the EngineContext with the
\* configuration and the loop variable next_tick_ms of run(); phase is the
\* position of run(): "new" before on_start, "running" in the loop, "ended"
\* after on_end.
\* calls is history: the callbacks and broker calls of the current loop
\* iteration, in order.
\* An event is a record with kind ("depth", "trade", "mark", "ticker"), the
\* fields of its class in types.py that the engine or the broker read.
\* What a strategy does in a callback is a move: [kind |-> "none"],
\* [kind |-> "submit", order |-> o] or [kind |-> "cancel", order_id |-> i].

Called(e, c) == [e EXCEPT !.calls = Append(@, c)]

\* An apply_funding_if_due that does not wait for the funding time.
apply_funding_if_due_early(e, mp) ==
    IF mp.next_funding_time_ms <= 0 THEN e
    ELSE IF mp.next_funding_time_ms
               <= DictGet(e.ctx.last_funding_applied_ms, mp.symbol, -1) THEN e
    ELSE LET r == apply_funding(e.w.portfolio, mp.symbol, mp.mark_price, mp.funding_rate)
         IN Called([e EXCEPT
                       !.ctx.last_funding_applied_ms =
                           DictSet(@, mp.symbol, mp.next_funding_time_ms),
                       !.w.portfolio = r.pf],
                   [call |-> "apply_funding", symbol |-> mp.symbol,
                    mark_price |-> mp.mark_price, funding_rate |-> mp.funding_rate,
                    pnl |-> r.pnl])

\* A funding gate that forgets what it applied.
apply_funding_if_due_again(e, mp) ==
    IF mp.next_funding_time_ms <= 0 THEN e
    ELSE IF mp.event_time_ms < mp.next_funding_time_ms THEN e
    ELSE LET r == apply_funding(e.w.portfolio, mp.symbol, mp.mark_price, mp.funding_rate)
         IN Called([e EXCEPT
                       !.ctx.last_funding_applied_ms =
                           DictSet(@, mp.symbol, mp.next_funding_time_ms),
                       !.w.portfolio = r.pf],
                   [call |-> "apply_funding", symbol |-> mp.symbol,
                    mark_price |-> mp.mark_price, funding_rate |-> mp.funding_rate,
                    pnl |-> r.pnl])

\* EngineContext.apply_funding_if_due
apply_funding_if_due(e, mp) ==
    IF mp.next_funding_time_ms <= 0 THEN e
    ELSE IF mp.event_time_ms < mp.next_funding_time_ms THEN e
    ELSE IF mp.next_funding_time_ms
               <= DictGet(e.ctx.last_funding_applied_ms, mp.symbol, -1) THEN e
    ELSE LET r == apply_funding(e.w.portfolio, mp.symbol, mp.mark_price, mp.funding_rate)
         IN Called([e EXCEPT
                       !.ctx.last_funding_applied_ms =
                           DictSet(@, mp.symbol, mp.next_funding_time_ms),
                       !.w.portfolio = r.pf],
                   [call |-> "apply_funding", symbol |-> mp.symbol,
                    mark_price |-> mp.mark_price, funding_rate |-> mp.funding_rate,
                    pnl |-> r.pnl])

\* now = int(ev.event_time_ms)
event_time(e, ev) == ev.event_time_ms

\* run() catches nothing: an exception of the broker or of the strategy
\* leaves run() where it is raised, and no later statement of run() runs.
\* propagated(e) says that one has left; propagate(e) is the run it leaves.
propagated(e) == e.ctx.phase = "raised"
propagate(e) == [e EXCEPT !.ctx.phase = "raised"]

\* ctx.now_ms = t; ctx.broker.on_time(t)
advance(e, t) ==
    IF propagated(e) THEN e
    ELSE Then(on_time_or_raise(e.w, t), LAMBDA r :
         Then(Called([e EXCEPT !.now_ms = t, !.w = r.w],
                     [call |-> "on_time", now_ms |-> t]), LAMBDA timed :
              IF r.raised THEN propagate(timed) ELSE timed))

\* What the strategy does inside a callback, at the context's time: it
\* calls the broker and catches nothing.
strategy_move(e, move) ==
    IF move.kind = "submit"
    THEN Then(submit_or_raise(e.w, move.order, e.now_ms), LAMBDA r :
              IF r.raised THEN propagate([e EXCEPT !.w = r.w]) ELSE [e EXCEPT !.w = r.w])
    ELSE IF move.kind = "cancel" THEN [e EXCEPT !.w = cancel(@, move.order_id, e.now_ms)]
    ELSE e

\* on_tick(next_tick_ms, ctx)
on_tick(e, t, move) ==
    IF propagated(e) THEN e
    ELSE strategy_move(Called(e, [call |-> "on_tick", now_ms |-> t]), move)

\* on_event(ev, ctx)
on_event(e, ev, move) ==
    IF propagated(e) THEN e
    ELSE strategy_move(Called(e, [call |-> "on_event", event |-> ev, book |-> e.w.book]),
                       move)

\* next_tick_ms = (now // tick_interval) * tick_interval, on the first event
anchor_ticks_at_event(e, now_ms) ==
    IF e.ctx.next_tick_ms # None THEN e
    ELSE [e EXCEPT !.ctx.next_tick_ms = now_ms]

anchor_ticks(e, now_ms) ==
    IF e.ctx.next_tick_ms # None THEN e
    ELSE [e EXCEPT !.ctx.next_tick_ms =
                      (now_ms \div e.ctx.tick_interval_ms) * e.ctx.tick_interval_ms]

\* How many ticks the while loop fires for an event at now_ms.
ticks_due(c, now_ms) ==
    IF c.tick_interval_ms <= 0 THEN 0
    ELSE LET first == IF c.next_tick_ms # None THEN c.next_tick_ms
                      ELSE (now_ms \div c.tick_interval_ms) * c.tick_interval_ms
         IN IF first > now_ms THEN 0
            ELSE (now_ms - first) \div c.tick_interval_ms + 1

\* while next_tick_ms <= now: ...; moves holds the strategy's move in each
\* on_tick of the loop.
RECURSIVE drive_ticks(_, _, _)
drive_ticks(e, now_ms, moves) ==
    IF propagated(e) \/ e.ctx.next_tick_ms > now_ms THEN e
    ELSE LET t == e.ctx.next_tick_ms
         IN Then(advance(e, t), LAMBDA timed :
            Then(on_tick(timed, t, Head(moves)), LAMBDA ticked :
            IF propagated(ticked) THEN ticked
            ELSE Then([ticked EXCEPT !.ctx.next_tick_ms = t + e.ctx.tick_interval_ms],
                      LAMBDA next : drive_ticks(next, now_ms, Tail(moves)))))

\* The classes of event run() dispatches on; any other raises TypeError.
EventKinds == {"depth", "trade", "mark", "ticker", "open_interest", "liquidation"}

\* else: raise TypeError("unsupported event type")
dispatch_raises(ev) == ev.kind \notin EventKinds

\* EngineContext.book(symbol) and ctx.books.  e.w.book is the book of
\* BookSymbol, the symbol the strategy trades and whose book it hands to
\* submit; e.ctx.books holds the books of the other symbols, made empty
\* when first asked for.
BookSymbol == "BTCUSDT"
\* L2Book()
EmptyBook == [bids |-> EmptyDict, asks |-> EmptyDict]
ctx_book(e, symbol) ==
    IF symbol = BookSymbol THEN e.w.book ELSE DictGet(e.ctx.books, symbol, EmptyBook)

\* book = ctx.book(ev.symbol); ctx.broker.on_depth_update(ev, book)
dispatch_depth(e, ev) ==
    Then(on_depth_update_or_raise([e.w EXCEPT !.book = ctx_book(e, ev.symbol)], ev),
         LAMBDA r :
    Then(IF ev.symbol = BookSymbol THEN [e EXCEPT !.w = r.w]
         ELSE [e EXCEPT !.w = [r.w EXCEPT !.book = e.w.book],
                        !.ctx.books = DictSet(@, ev.symbol, r.w.book)],
         LAMBDA e2 :
         IF r.raised THEN propagate(e2) ELSE e2))

\* ctx.broker.on_trade(ev, now_ms=now)
dispatch_trade(e, ev) ==
    Then(broker_on_trade_or_raise(e.w, ev, e.now_ms), LAMBDA r :
         IF r.raised THEN propagate([e EXCEPT !.w = r.w]) ELSE [e EXCEPT !.w = r.w])

\* The dispatch of run() on the class of the event.
dispatch(e, ev) ==
    LET d == Called(e, [call |-> "dispatch", event |-> ev, book |-> e.w.book,
                        due |-> {p.order.id : p \in {x \in e.w.pending_submits :
                                                        x.due <= ev.event_time_ms}}])
    IN IF propagated(e) THEN e
       ELSE IF ev.kind = "depth" THEN dispatch_depth(d, ev)
       ELSE IF ev.kind = "trade" THEN dispatch_trade(d, ev)
       ELSE IF ev.kind = "mark"
            THEN apply_funding_if_due([d EXCEPT !.ctx.mark = DictSet(@, ev.symbol, ev)], ev)
       ELSE IF ev.kind = "ticker" THEN [d EXCEPT !.ctx.ticker = DictSet(@, ev.symbol, ev)]
       ELSE IF ev.kind = "open_interest"
            THEN [d EXCEPT !.ctx.open_interest = DictSet(@, ev.symbol, ev)]
       ELSE IF ~dispatch_raises(ev)
            THEN [d EXCEPT !.ctx.liquidation = DictSet(@, ev.symbol, ev)]
       ELSE propagate(d)

\* One iteration of the loop of run() with the ticks driven after the
\* event's own on_time.
run_event_ticks_last(e, ev, tick_moves, move) ==
    LET now_ms == event_time(e, ev)
    IN Then([e EXCEPT !.calls = <<>>], LAMBDA e0 :
       Then(advance(e0, now_ms), LAMBDA timed :
       Then(IF timed.ctx.tick_interval_ms > 0
            THEN Then(anchor_ticks(timed, now_ms), LAMBDA anchored :
                      drive_ticks(anchored, now_ms, tick_moves))
            ELSE timed, LAMBDA ticked :
       Then(dispatch(ticked, ev), LAMBDA dispatched :
            on_event(dispatched, ev, move)))))

\* One iteration of the loop of run() with the event first dispatched.
run_event_dispatch_first(e, ev, tick_moves, move) ==
    LET now_ms == event_time(e, ev)
    IN Then([e EXCEPT !.calls = <<>>], LAMBDA e0 :
       Then(IF e0.ctx.tick_interval_ms > 0
            THEN Then(anchor_ticks(e0, now_ms), LAMBDA anchored :
                      drive_ticks(anchored, now_ms, tick_moves))
            ELSE e0, LAMBDA ticked :
       Then(dispatch([ticked EXCEPT !.now_ms = now_ms], ev), LAMBDA dispatched :
       Then(advance(dispatched, now_ms), LAMBDA timed :
            on_event(timed, ev, move)))))

\* One iteration of the loop of run(): for ev in events.
run_event(e, ev, tick_moves, move) ==
    LET now_ms == event_time(e, ev)
    IN Then([e EXCEPT !.calls = <<>>], LAMBDA e0 :
       Then(IF e0.ctx.tick_interval_ms > 0
            THEN Then(anchor_ticks(e0, now_ms), LAMBDA anchored :
                      drive_ticks(anchored, now_ms, tick_moves))
            ELSE e0, LAMBDA ticked :
       Then(advance(ticked, now_ms), LAMBDA timed :
       Then(dispatch(timed, ev), LAMBDA dispatched :
            on_event(dispatched, ev, move)))))

\* The start of run(): on_start(ctx), before the loop.
run_start(e, move) ==
    strategy_move(Called([e EXCEPT !.calls = <<>>, !.ctx.phase = "running"],
                         [call |-> "on_start"]), move)

\* if callable(on_end): on_end(ctx); return BacktestResult(ctx=ctx)
\* The call is recorded with the pending submits and the fills it finds.
on_end(e, move) ==
    IF propagated(e) THEN e
    ELSE Then(strategy_move(Called(e, [call |-> "on_end",
                                       pending |-> e.w.pending_submits,
                                       fills |-> e.w.fills]), move),
              LAMBDA ended : IF propagated(ended) THEN ended
                             ELSE [ended EXCEPT !.ctx.phase = "ended"])

\* An end of run() whose last tick does not advance the broker.
run_end_without_on_time(e, move, end_move) ==
    LET e0 == [e EXCEPT !.calls = <<>>]
    IN Then(IF e.ctx.next_tick_ms # None
            THEN on_tick([e0 EXCEPT !.now_ms = e.ctx.next_tick_ms],
                         e.ctx.next_tick_ms, move)
            ELSE e0, LAMBDA ticked : on_end(ticked, end_move))

\* The end of run(): one last tick, then on_end; move is what the strategy
\* does in that on_tick, end_move what it does in on_end.
run_end(e, move, end_move) ==
    LET e0 == [e EXCEPT !.calls = <<>>]
    IN Then(IF e.ctx.next_tick_ms # None THEN advance(e0, e.ctx.next_tick_ms) ELSE e0,
            LAMBDA timed :
       Then(IF e.ctx.next_tick_ms # None THEN on_tick(timed, e.ctx.next_tick_ms, move)
            ELSE timed, LAMBDA ticked : on_end(ticked, end_move)))

\* ----------------------------------------------------------------- replay
\* An event of a stream is [event_time_ms, stream, index]: its time and,
\* to tell equal-looking events apart, the stream it came from and its
\* place there.  The frame of merge_event_streams is
\*   [streams, phase, heap, seq, last]
\* phase: "new" before the first next(), "yielded" while suspended at the
\* yield, "done" after StopIteration; heap: the set of entries
\* [time, seq, ev, it], it being the number of the stream the entry's
\* iterator reads; last: the entry popped for the event last yielded.

\* next(it, None) on the iterator the event ev was last taken from: the
\* event after ev in its stream, as a sequence of one event, or <<>> for
\* None.  A yield is written the same way, <<>> being StopIteration.
next_of(streams, ev) ==
    IF ev.index < Len(streams[ev.stream])
    THEN <<streams[ev.stream][ev.index + 1]>> ELSE <<>>

\* A heap that pops, among the earliest entries, the one pushed last.
merge_top_latest(heap) ==
    CHOOSE x \in heap : \A y \in heap :
       x.time < y.time \/ (x.time = y.time /\ x.seq >= y.seq)

\* heapq.heappop(heap): the least (time, seq)
merge_top(heap) ==
    CHOOSE x \in heap : \A y \in heap :
       x.time < y.time \/ (x.time = y.time /\ x.seq <= y.seq)

\* for stream in streams: push the first event of each non-empty stream
RECURSIVE merge_open(_, _, _)
merge_open(streams, k, g) ==
    IF k > Len(streams) THEN g
    ELSE IF streams[k] = <<>> THEN merge_open(streams, k + 1, g)
    ELSE merge_open(streams, k + 1,
            [g EXCEPT !.heap = @ \cup {[time |-> streams[k][1].event_time_ms,
                                        seq |-> g.seq, ev |-> streams[k][1], it |-> k]},
                      !.seq = @ + 1])

\* while heap: pop and yield; [g, yield]
merge_pop(g) ==
    IF g.heap = {} THEN [g |-> [g EXCEPT !.phase = "done"], yield |-> <<>>]
    ELSE LET x == merge_top(g.heap)
         IN [g |-> [g EXCEPT !.heap = @ \ {x}, !.phase = "yielded", !.last = <<x>>],
             yield |-> <<x.ev>>]

\* One next() on the generator merge_event_streams(*streams).
merge_next(g) ==
    IF g.phase = "new" THEN merge_pop(merge_open(g.streams, 1, g))
    ELSE IF g.phase = "yielded"
    THEN LET popped == g.last[1]
             nxt == next_of(g.streams, popped.ev)
         IN IF nxt = <<>> THEN merge_pop(g)
            ELSE merge_pop([g EXCEPT !.heap = @ \cup
                               {[time |-> nxt[1].event_time_ms, seq |-> popped.seq,
                                 ev |-> nxt[1], it |-> popped.it]}])
    ELSE [g |-> g, yield |-> <<>>]

\* The frame of slice_event_stream is [events, start_ms, end_ms, pos, phase]:
\* pos is the number of events taken from the input so far.

\* if end_ms is not None and t >= end_ms: break
slice_stops_after(end_ms, t) == end_ms # None /\ t > end_ms

slice_stops(end_ms, t) == end_ms # None /\ t >= end_ms

\* for ev in events: up to the next yield; [g, yield]
RECURSIVE slice_scan(_)
slice_scan(g) ==
    IF g.pos >= Len(g.events) THEN [g |-> [g EXCEPT !.phase = "done"], yield |-> <<>>]
    ELSE LET ev == g.events[g.pos + 1]
             t == ev.event_time_ms
             taken == [g EXCEPT !.pos = @ + 1]
         IN IF g.start_ms = None /\ g.end_ms = None
            THEN [g |-> [taken EXCEPT !.phase = "yielded"], yield |-> <<ev>>]
            ELSE IF g.start_ms # None /\ t < g.start_ms THEN slice_scan(taken)
            ELSE IF slice_stops(g.end_ms, t)
                 THEN [g |-> [taken EXCEPT !.phase = "done"], yield |-> <<>>]
            ELSE [g |-> [taken EXCEPT !.phase = "yielded"], yield |-> <<ev>>]

\* One next() on the generator slice_event_stream(events, start_ms, end_ms).
slice_next(g) ==
    IF g.phase = "done" THEN [g |-> g, yield |-> <<>>] ELSE slice_scan(g)

\* ---------------------------------------------------------- state machine

VARIABLES
    cfg,              \* the SimBroker configuration, fixed at construction
    book,             \* the L2Book of BTCUSDT the caller passes to the broker
    maker_orders,     \* SimBroker._maker_orders
    pending_submits,  \* SimBroker._pending_submits
    pending_cancels,  \* SimBroker._pending_cancels
    seq,              \* SimBroker._seq
    canceled,         \* SimBroker._canceled
    fills,            \* SimBroker.fills
    portfolio,        \* SimBroker.portfolio
    now,              \* the caller's clock (EngineContext.now_ms)
    ctx,              \* the EngineContext and the loop variables of run()
    gen,              \* the frame of a generator of replay.py, suspended
    trace,            \* history: the calls made so far, or their ledger
    last,             \* history: the last call, its arguments, what was due
    ret               \* history: what a single call returned

vars == <<cfg, book, maker_orders, pending_submits, pending_cancels, seq,
          canceled, fills, portfolio, now, ctx, gen, trace, last, ret>>

World == [cfg |-> cfg, book |-> book, maker_orders |-> maker_orders,
          pending_submits |-> pending_submits,
          pending_cancels |-> pending_cancels, seq |-> seq,
          canceled |-> canceled, fills |-> fills, portfolio |-> portfolio]

\* The broker and its book become w; the clock becomes t.
Becomes(w, t) ==
    /\ Len(w.fills) <= MaxFills
    /\ w.seq <= MaxSeq
    /\ cfg' = w.cfg
    /\ book' = w.book
    /\ maker_orders' = w.maker_orders
    /\ pending_submits' = w.pending_submits
    /\ pending_cancels' = w.pending_cancels
    /\ seq' = w.seq
    /\ canceled' = w.canceled
    /\ fills' = w.fills
    /\ portfolio' = w.portfolio
    /\ now' = t

NoCall == [name |-> "none"]

Start(c, b, ms) ==
    /\ cfg = c
    /\ book = b
    /\ maker_orders = ms
    /\ pending_submits = {}
    /\ pending_cancels = {}
    /\ seq = 0
    /\ canceled = {}
    /\ fills = <<>>
    /\ portfolio = NewPortfolio
    /\ now = 0
    /\ ctx = NoCall
    /\ gen = NoCall
    /\ trace = <<>>
    /\ last = NoCall
    /\ ret = NoCall

Fresh(c, b) == Start(c, b, <<>>)

Config(sl, cl, part) ==
    [submit_latency_ms |-> sl, cancel_latency_ms |-> cl,
     maker_queue_ahead_factor |-> 1, maker_queue_ahead_extra_qty |-> 0,
     maker_trade_participation |-> part,
     maker_fee_frac |-> MakerFeeNum, taker_fee_frac |-> TakerFeeNum]

MarketOrder(i, s, q) ==
    [id |-> i, symbol |-> "BTCUSDT", side |-> s, order_type |-> "market",
     quantity |-> q, price |-> None, time_in_force |-> "GTC", post_only |-> FALSE]

LimitOrder(i, s, q, p, tif, po) ==
    [id |-> i, symbol |-> "BTCUSDT", side |-> s, order_type |-> "limit",
     quantity |-> q, price |-> p, time_in_force |-> tif, post_only |-> po]

BidOnly(l) == [symbol |-> "BTCUSDT", bid_updates |-> <<l>>, ask_updates |-> <<>>]
AskOnly(l) == [symbol |-> "BTCUSDT", bid_updates |-> <<>>, ask_updates |-> <<l>>]

\* ---- what is due at time t, in the current state

DueSubmits(x, t) == {e \in pending_submits : e.order.id = x /\ e.due <= t}
DueCancels(x, t) == {c \in pending_cancels : c.order_id = x /\ c.due <= t}
DueSubmitIds(t) == {e.order.id : e \in {f \in pending_submits : f.due <= t}}
DueCancelIds(t) == {c.order_id : c \in {f \in pending_cancels : f.due <= t}}
\* The ids with a due pending submit and a due cancel requested after it.
CanceledWhilePending(t) ==
    {e.order.id : e \in {f \in pending_submits :
        /\ f.due <= t
        /\ \E c \in pending_cancels :
              c.order_id = f.order.id /\ c.due <= t /\ c.seq > f.seq}}
\* The ids with a due pending submit that is not flagged and a cancel
\* requested after it that is not due by t, no cancel of the id being due.
CancelStillPending(t) ==
    {e.order.id : e \in {f \in pending_submits :
        /\ f.due <= t
        /\ f.order.id \notin canceled
        /\ \A c \in pending_cancels : c.order_id = f.order.id => c.due > t
        /\ \E c \in pending_cancels : c.order_id = f.order.id /\ c.seq > f.seq}}

\* ---- the calls of the broker's interface, one action each.  A call is
\* recorded in last when the specification watches it.

Note(watch, call) == last' = IF watch THEN call ELSE NoCall

\* broker.submit(order, book, now_ms)
Submit(order, watch) ==
    /\ Becomes(submit(World, order, now), now)
    /\ Note(watch, [name |-> "submit", order |-> order])
    /\ UNCHANGED <<ret, ctx, gen, trace>>

\* broker.cancel(order_id, now_ms=now), or broker.cancel(order_id) when
\* now_ms = None
Cancel(order_id, now_ms, watch) ==
    /\ Becomes(cancel(World, order_id, now_ms), now)
    /\ Note(watch, [name |-> "cancel", order_id |-> order_id, now_ms |-> now_ms])
    /\ UNCHANGED <<ret, ctx, gen, trace>>

\* The caller advances its clock to t and calls broker.on_time(t).
OnTime(t, watch) ==
    /\ Becomes(on_time(World, t), t)
    /\ Note(watch, [name |-> "on_time", now_ms |-> t,
                    due_cancels |-> DueCancelIds(t),
                    due_submits |-> DueSubmitIds(t),
                    canceled_pending |-> CanceledWhilePending(t),
                    cancel_still_pending |-> CancelStillPending(t)])
    /\ UNCHANGED <<ret, ctx, gen, trace>>

\* broker.on_depth_update(update, book)
OnDepthUpdate(update, watch) ==
    /\ Becomes(on_depth_update(World, update), now)
    /\ Note(watch, [name |-> "on_depth_update", update |-> update,
                    before |-> maker_orders])
    /\ UNCHANGED <<ret, ctx, gen, trace>>

\* broker.on_trade(trade, now_ms)
OnTrade(trade, watch) ==
    /\ Becomes(broker_on_trade(World, trade, now), now)
    /\ Note(watch, [name |-> "on_trade", trade |-> trade])
    /\ UNCHANGED <<ret, ctx, gen, trace>>

\* ---- SpecLat: the latency queues.  A submit latency of 1 or 2 against a
\* cancel latency of 0, 1 or 2 (shorter, equal, longer), market buys and
\* post-only bids under two ids, asks and bids that come and go, a trade.

LatIds == {"a", "b"}
LatOrders == {MarketOrder(i, "buy", 1) : i \in LatIds}
             \cup {LimitOrder(i, "buy", 1, 1, "GTC", TRUE) : i \in LatIds}
LatUpdates == {AskOnly(<<2, q>>) : q \in 0..1}
              \cup {BidOnly(<<1, q>>) : q \in 0..1}
LatTrades == {[symbol |-> "BTCUSDT", price |-> 1, quantity |-> 2,
               is_buyer_maker |-> TRUE]}
LatConfigs == {Config(sl, cl, <<1, 2>>) : sl \in 1..2, cl \in 0..2}

InitLat == \E c \in LatConfigs : Fresh(c, EmptyBook)

NextLat ==
    \/ \E o \in LatOrders : Submit(o, TRUE)
    \/ \E i \in LatIds : Cancel(i, now, FALSE)
    \/ \E t \in now..MaxTime : OnTime(t, TRUE)
    \/ \E u \in LatUpdates : OnDepthUpdate(u, FALSE)
    \/ \E tr \in LatTrades : OnTrade(tr, FALSE)

SpecLat == InitLat /\ [][NextLat]_vars

\* ---- steps of SpecLat

\* The step is a call of on_time, or of submit (the calls SpecLat records).
IsOnTime == last'.name = "on_time"
IsSubmit == last'.name = "submit"
\* The fills the step appends.
NewFills == SubSeq(fills', Len(fills) + 1, Len(fills'))
NewFillIds == {NewFills[i].order_id : i \in 1..Len(NewFills)}
\* The step leaves no trace of an order x: no fill, no resting order.
NoTrace(x) == x \notin NewFillIds /\ x \notin MakerIds(maker_orders')
\* The step neither fills x nor opens (or changes) a resting order x.
NotRouted(x) ==
    /\ x \notin NewFillIds
    /\ x \in MakerIds(maker_orders') =>
          /\ x \in MakerIds(maker_orders)
          /\ maker_orders'[MakerOf(maker_orders', x)] = maker_orders[MakerOf(maker_orders, x)]

\* C1: in on_time(t) the due cancels are applied before the due submits are
\* routed: when a cancel of x and the pending submit of x are both due by t,
\* the submit is discarded: the call appends no fill of x and leaves no
\* resting order x, and when no other submit is due it changes neither the
\* fills nor the portfolio nor the book.
C1_CancelAppliedFirst ==
    [][IsOnTime =>
         \A x \in LatIds :
            (DueCancels(x, now') # {} /\ Cardinality(DueSubmits(x, now')) = 1) =>
               /\ NoTrace(x)
               /\ DueSubmitIds(now') = {x} =>
                     fills' = fills /\ portfolio' = portfolio /\ book' = book]_vars

\* C1 witness: on_time found a cancel of "a" and the one pending submit of
\* "a" due together, the book had asks to fill it from, and nothing of "a"
\* was filled or left resting.
C1_Witness ==
    /\ last.name = "on_time"
    /\ "a" \in last.due_cancels /\ "a" \in last.due_submits
    /\ 2 \in DOMAIN book.asks
    /\ fills = <<>> /\ maker_orders = <<>>

\* The entry a submit at the current time adds for order o.
PendingEntry(o) == [due |-> now + cfg.submit_latency_ms, seq |-> seq + 1, order |-> o]
\* The asks of the current book that hold quantity.
LiveAsks == {p \in DOMAIN book.asks : book.asks[p] > 0}
\* The one submit that is due by t, when there is exactly one and no cancel
\* stands against it.
SoleDue(e, t) ==
    /\ {f \in pending_submits : f.due <= t} = {e}
    /\ e.order.id \notin canceled
    /\ DueCancels(e.order.id, t) = {}

\* C2: with submit_latency_ms > 0, submit only queues the order to become
\* due at now + latency (no fill, no resting order, no book or portfolio
\* change); the entry stays pending through every call that is not an
\* on_time at or after its due time and leaves at the first such on_time;
\* a routed market buy fills from the asks the book holds at that on_time
\* (none: no fill), and a routed post-only bid queues behind the bid
\* quantity the book shows at that on_time.
C2_SubmitLatency ==
    [][/\ IsSubmit =>
             /\ pending_submits' = pending_submits \cup {PendingEntry(last'.order)}
             /\ PendingEntry(last'.order) \notin pending_submits
             /\ fills' = fills /\ maker_orders' = maker_orders
             /\ book' = book /\ portfolio' = portfolio
       /\ \A e \in pending_submits :
             e \notin pending_submits' <=> (IsOnTime /\ e.due <= now')
       /\ IsOnTime =>
             \A e \in pending_submits :
                SoleDue(e, now') =>
                   IF e.order.order_type = "market"
                   THEN IF LiveAsks = {}
                        THEN fills' = fills /\ book' = book
                        ELSE /\ Len(NewFills) = 1
                             /\ NewFills[1].order_id = e.order.id
                             /\ NewFills[1].quantity = 1
                             /\ NewFills[1].price = SetMin(LiveAsks) * PxScale
                             /\ NewFills[1].event_time_ms = now'
                             /\ NewFills[1].liquidity = "taker"
                             /\ DictGet(book'.asks, SetMin(LiveAsks), 0)
                                   = book.asks[SetMin(LiveAsks)] - 1
                   ELSE /\ fills' = fills /\ book' = book
                        /\ e.order.id \in MakerIds(maker_orders')
                        /\ maker_orders'[MakerOf(maker_orders', e.order.id)].mo.queue_ahead_qty
                              = DictGet(book.bids, e.order.price, 0)]_vars

\* C2 witness: a market buy submitted while the book had no asks was filled
\* by a later on_time from asks that arrived while it was pending.
C2_Witness ==
    /\ last.name = "on_time" /\ last.now_ms >= 1
    /\ last.due_submits = {"a"} /\ last.due_cancels = {}
    /\ Len(fills) = 1 /\ fills[1].order_id = "a" /\ fills[1].liquidity = "taker"
    /\ fills[1].event_time_ms = last.now_ms

\* The cancel of C3: e is the one pending submit of its id, due by t, and
\* a cancel of the id was requested after it (still pending, or applied and
\* flagged).
CanceledPending(e, t) ==
    /\ e.due <= t
    /\ Cardinality({f \in pending_submits : f.order.id = e.order.id}) = 1
    /\ \/ e.order.id \in canceled
       \/ \E c \in pending_cancels : c.order_id = e.order.id /\ c.seq > e.seq
\* The cancel has been applied by the end of the cancel loop of on_time(t):
\* the id is flagged already, or a cancel of it is due by t.
AppliedBy(x, t) == x \in canceled \/ DueCancels(x, t) # {}
\* The market orders other than e that on_time(t) finds due.
OtherDueMarket(e, t) ==
    {f \in pending_submits : f # e /\ f.due <= t /\ f.order.order_type = "market"}
\* The step routes e: a market buy takes the ask when no other market order
\* is due for it and takes nothing from a book without asks, a post-only bid
\* rests behind the bid quantity of the book.
RoutedAt(e, t) ==
    IF e.order.order_type = "market"
    THEN /\ (LiveAsks # {} /\ OtherDueMarket(e, t) = {}) => e.order.id \in NewFillIds
         /\ LiveAsks = {} => e.order.id \notin NewFillIds
    ELSE /\ e.order.id \in MakerIds(maker_orders')
         /\ maker_orders'[MakerOf(maker_orders', e.order.id)].mo.queue_ahead_qty
               = DictGet(book.bids, e.order.price, 0)

\* C3: a cancel requested while the one submit of the order id is pending is
\* honoured exactly when it has been applied by the on_time call that
\* activates the submit (the cancel is due by the time of that call, or was
\* applied before): that call discards the submit, appending no fill of the
\* order and opening no resting order for it, and no submit of the id stays
\* pending.  A cancel still pending after that call does not stop the
\* submit: the call routes the order.
C3_CancelWhilePending ==
    [][IsOnTime =>
         \A e \in pending_submits :
            CanceledPending(e, now') =>
               IF AppliedBy(e.order.id, now')
               THEN /\ NotRouted(e.order.id)
                    /\ \A f \in pending_submits' : f.order.id # e.order.id
               ELSE RoutedAt(e, now')]_vars

\* C3 as stated (for every combination of the two latencies): refuted by a
\* cancel that is still pending when the submit is activated.
C3_AnyLatency ==
    [][IsOnTime =>
         \A e \in pending_submits :
            CanceledPending(e, now') => NotRouted(e.order.id)]_vars

\* C3 witness: with a cancel latency longer than the submit latency, on_time
\* found the submit of "a" and a cancel requested after it, due later than
\* the submit, both due, and routed nothing.
C3_Witness ==
    /\ last.name = "on_time"
    /\ "a" \in last.canceled_pending
    /\ cfg.cancel_latency_ms > cfg.submit_latency_ms
    /\ 2 \in DOMAIN book.asks
    /\ \A i \in 1..Len(fills) : fills[i].order_id # "a"
    /\ "a" \notin MakerIds(maker_orders)
\* The other case: on_time activated the submit of "a" while the cancel
\* requested after it was still pending, and the order was filled.
LateCancelRouted ==
    /\ last.name = "on_time"
    /\ "a" \in last.cancel_still_pending
    /\ \E c \in pending_cancels : c.order_id = "a" /\ c.due > now
    /\ \E i \in 1..Len(fills) : fills[i].order_id = "a" /\ fills[i].event_time_ms = now

\* ---- SpecRoute: order routing. From any book over two bid and two ask
\* prices (the books may cross), a broker without latency routes order "a"
\* and then order "b", each of any type, side, quantity, price and flags.

RouteBooks ==
    {apply_depth_update(EmptyBook, <<<<1, b1>>, <<2, b2>>>>, <<<<2, a2>>, <<3, a3>>>>) :
        b1 \in LevelQtys, b2 \in LevelQtys, a2 \in LevelQtys, a3 \in LevelQtys}
RouteOrders(i) ==
    {MarketOrder(i, s, q) : s \in Sides, q \in OrderQtys}
    \cup {LimitOrder(i, s, q, p, tif, po) :
            s \in Sides, q \in OrderQtys, p \in Prices,
            tif \in {"GTC", "IOC"}, po \in BOOLEAN}

InitRoute == \E b \in RouteBooks : Fresh(Config(0, 0, <<1, 1>>), b)

NextRoute ==
    \/ \E o \in RouteOrders("a") : last = NoCall /\ Submit(o, TRUE)
    \/ \E o \in RouteOrders("b") :
          last.name = "submit" /\ last.order.id = "a" /\ Submit(o, TRUE)

SpecRoute == InitRoute /\ [][NextRoute]_vars

\* The levels of the current book that hold quantity.
LiveBids == {p \in DOMAIN book.bids : book.bids[p] > 0}
\* The order o crosses the current book: it reaches the best opposite price.
Crosses(o) ==
    IF o.side = "buy" THEN \E p \in LiveAsks : p <= o.price
                      ELSE \E p \in LiveBids : p >= o.price
\* The opposite levels of the current book that order o may take.
Takeable(o) ==
    IF o.side = "buy" THEN {p \in LiveAsks : p <= o.price}
                      ELSE {p \in LiveBids : p >= o.price}
Opposite(b, o) == IF o.side = "buy" THEN b.asks ELSE b.bids
SameSide(b, o) == IF o.side = "buy" THEN b.bids ELSE b.asks
RECURSIVE SumAt(_, _)
SumAt(d, S) == IF S = {} THEN 0
               ELSE LET p == CHOOSE x \in S : TRUE IN d[p] + SumAt(d, S \ {p})
\* The quantity order o can take within its limit.
TakeableQty(o) == Min2(o.quantity, SumAt(Opposite(book, o), Takeable(o)))
\* The step leaves every resting order but o's as it was.
OthersKept(o) ==
    MakerPop(maker_orders', o.id) = MakerPop(maker_orders, o.id)
\* After the step exactly one resting order has o's id, at o's price and
\* side, with quantity q and nothing filled.
RestsWith(o, q) ==
    /\ Cardinality({i \in 1..Len(maker_orders') : maker_orders'[i].id = o.id}) = 1
    /\ LET mo == maker_orders'[MakerOf(maker_orders', o.id)].mo
       IN /\ mo.price = o.price /\ mo.side = o.side /\ mo.symbol = o.symbol
          /\ mo.quantity = q /\ mo.filled_qty = 0
\* The step appends exactly one fill, a taker fill of o, of quantity f at an
\* average price within o's limit and at the step's time.
OneTakerFill(o, f) ==
    /\ Len(NewFills) = 1
    /\ NewFills[1].order_id = o.id /\ NewFills[1].liquidity = "taker"
    /\ NewFills[1].side = o.side /\ NewFills[1].quantity = f
    /\ NewFills[1].event_time_ms = now'
    /\ IF o.side = "buy" THEN NewFills[1].price <= o.price * PxScale
                         ELSE NewFills[1].price >= o.price * PxScale

\* C4: a post-only limit order that would cross when routed (buy: a best ask
\* exists and is <= the price; sell: a best bid exists and is >= the price;
\* touching counts) is rejected silently: fills, resting orders, portfolio and
\* book stay as they were. One that does not cross becomes a resting order
\* and produces no fill.
C4_PostOnly ==
    [][IsSubmit /\ last'.order.order_type = "limit" /\ last'.order.post_only =>
         IF Crosses(last'.order)
         THEN /\ fills' = fills /\ maker_orders' = maker_orders
              /\ portfolio' = portfolio /\ book' = book
         ELSE /\ RestsWith(last'.order, last'.order.quantity)
              /\ OthersKept(last'.order)
              /\ fills' = fills /\ portfolio' = portfolio /\ book' = book]_vars

\* C4 witness: with order "a" resting, a post-only buy "b" priced exactly at
\* the best ask was rejected.
C4_Witness ==
    /\ last.name = "submit" /\ last.order.id = "b" /\ last.order.post_only
    /\ last.order.order_type = "limit" /\ last.order.side = "buy"
    /\ LiveAsks # {} /\ last.order.price = SetMin(LiveAsks)
    /\ MakerIds(maker_orders) = {"a"} /\ fills = <<>>

\* The quantity the step removes from the levels S of the side o takes from.
TakenAt(o, S) == SumAt(Opposite(book, o), S)
                 - SumAt([p \in S |-> DictGet(Opposite(book', o), p, 0)], S)

\* C5: a non-post-only IOC limit order fills only against opposite levels
\* within its limit (buy: price <= limit; sell: price >= limit), by as much
\* as they hold up to its quantity; its remainder is discarded, so no order
\* with its id rests afterwards; when no level is within the limit no fill
\* is emitted and portfolio and book are unchanged.
C5_IocLimit ==
    [][IsSubmit /\ last'.order.order_type = "limit" /\ ~last'.order.post_only
                /\ last'.order.time_in_force = "IOC" =>
         LET o == last'.order
         IN /\ \A p \in Prices \ Takeable(o) :
                  DictGet(Opposite(book', o), p, 0) = DictGet(Opposite(book, o), p, 0)
            /\ SameSide(book', o) = SameSide(book, o)
            /\ o.id \notin MakerIds(maker_orders') /\ maker_orders' = maker_orders
            /\ IF Takeable(o) = {}
               THEN fills' = fills /\ portfolio' = portfolio /\ book' = book
               ELSE /\ OneTakerFill(o, TakeableQty(o))
                    /\ TakenAt(o, Takeable(o)) = TakeableQty(o)]_vars

\* C5 witness: an IOC buy of 2 with limit 2 took the single unit offered at
\* 2, left the asks at 3 alone and rests nowhere.
C5_Witness ==
    /\ last.name = "submit" /\ last.order.id = "a"
    /\ last.order.order_type = "limit" /\ ~last.order.post_only
    /\ last.order.time_in_force = "IOC" /\ last.order.side = "buy"
    /\ last.order.quantity = 2 /\ last.order.price = 2
    /\ Len(fills) = 1 /\ fills[1].quantity = 1 /\ fills[1].price = 2 * PxScale
    /\ LiveAsks = {3} /\ maker_orders = <<>>

\* C6: a non-post-only GTC limit order of quantity Q that crosses when routed
\* is filled at once as a taker for the portion F available within its
\* limit; if F < Q exactly one resting order with its id remains, at the
\* limit price, with quantity Q - F and filled_qty 0; if F = Q none remains.
\* One that does not cross rests in full and produces no fill.
C6_GtcLimit ==
    [][IsSubmit /\ last'.order.order_type = "limit" /\ ~last'.order.post_only
                /\ last'.order.time_in_force = "GTC" =>
         LET o == last'.order
             F == TakeableQty(o)
         IN /\ OthersKept(o)
            /\ IF Crosses(o)
               THEN /\ OneTakerFill(o, F)
                    /\ TakenAt(o, Takeable(o)) = F
                    /\ F < o.quantity => RestsWith(o, o.quantity - F)
                    /\ F = o.quantity => o.id \notin MakerIds(maker_orders')
               ELSE /\ RestsWith(o, o.quantity)
                    /\ fills' = fills /\ portfolio' = portfolio /\ book' = book]_vars

\* C6 witness: a GTC sell of 2 with limit 2 sold the single unit bid at 2 and
\* rests with the remaining unit at 2.
C6_Witness ==
    /\ last.name = "submit" /\ last.order.id = "a"
    /\ last.order.order_type = "limit" /\ ~last.order.post_only
    /\ last.order.time_in_force = "GTC" /\ last.order.side = "sell"
    /\ last.order.quantity = 2 /\ last.order.price = 2
    /\ Len(fills) = 1 /\ fills[1].quantity = 1 /\ fills[1].liquidity = "taker"
    /\ Len(maker_orders) = 1 /\ maker_orders[1].id = "a"
    /\ maker_orders[1].mo.quantity = 1 /\ maker_orders[1].mo.filled_qty = 0

\* ---- SpecTaker: the taker matcher. From any book over Prices, one call of
\* consume_taker_fill with any side, quantity and limit (or none), or one
\* market order routed by the broker.

TakeQtys == 1..6
TakerBooks ==
    {apply_depth_update(EmptyBook, <<<<1, b[1]>>, <<2, b[2]>>, <<3, b[3]>>>>,
                                   <<<<1, a[1]>>, <<2, a[2]>>, <<3, a[3]>>>>) :
        b \in [Prices -> LevelQtys], a \in [Prices -> LevelQtys]}

InitTaker == \E b \in TakerBooks : Fresh(Config(0, 0, <<1, 1>>), b)

\* consume_taker_fill(book, side, quantity, limit_price=limit_price)
Take(side, quantity, limit_price) ==
    LET r == consume_taker_fill(book, side, quantity, limit_price)
    IN /\ last = NoCall
       /\ book' = r.book
       /\ ret' = [avg_px |-> r.avg_px, filled_qty |-> r.filled_qty]
       /\ last' = [name |-> "consume_taker_fill", side |-> side,
                   quantity |-> quantity, price |-> limit_price]
       /\ UNCHANGED <<cfg, maker_orders, pending_submits, pending_cancels, seq,
                      canceled, fills, portfolio, now, ctx, gen, trace>>

NextTaker ==
    \/ \E s \in Sides, q \in TakeQtys, l \in Prices \cup {None} : Take(s, q, l)
    \/ \E s \in Sides, q \in OrderQtys :
          last = NoCall /\ Submit(MarketOrder("a", s, q), TRUE)

SpecTaker == InitTaker /\ [][NextTaker]_vars

IsTake == last'.name = "consume_taker_fill" /\ last = NoCall
\* The opposite levels a taker of the given side and limit may take.
Within(side, limit_price) ==
    IF side = "buy" THEN {p \in LiveAsks : limit_price = None \/ p <= limit_price}
                    ELSE {p \in LiveBids : limit_price = None \/ p >= limit_price}
\* Price p has priority over p2 for a taker of the given side.
Better(side, p, p2) == IF side = "buy" THEN p < p2 ELSE p > p2
\* What the step takes from level p of the side o takes from.
TakenFrom(o, p) == DictGet(Opposite(book, o), p, 0) - DictGet(Opposite(book', o), p, 0)

\* C7: consume_taker_fill fills exactly min(quantity, total quantity of the
\* opposite levels within the limit), in strict price priority (nothing is
\* taken from a level while a better one keeps quantity); it lowers each
\* level by what it takes there, removes exhausted levels, and leaves the
\* same side and the levels beyond the limit as they were. The average price
\* is the cost of what was taken over the filled quantity. A market order
\* takes without limit.
C7_ConsumeTakerFill ==
    [][/\ IsTake =>
            LET o == last'
                T == Within(o.side, o.price)
                f == ret'.filled_qty
            IN /\ f = Min2(o.quantity, SumAt(Opposite(book, o), T))
               /\ \A p \in Prices : TakenFrom(o, p) >= 0
               /\ TakenAt(o, T) = f
               /\ \A p \in Prices \ T : TakenFrom(o, p) = 0
               /\ \A p \in T, p2 \in T :
                     Better(o.side, p, p2) /\ TakenFrom(o, p2) > 0 =>
                        p \notin DOMAIN Opposite(book', o)
               /\ \A p \in DOMAIN Opposite(book', o) : Opposite(book', o)[p] > 0
               /\ SameSide(book', o) = SameSide(book, o)
               /\ IF f = 0 THEN ret'.avg_px = NaN
                  ELSE ret'.avg_px * f =
                          PxScale * SumAt([p \in T |-> p * TakenFrom(o, p)], T)
       /\ IsSubmit =>
            LET o == last'.order
                all == Within(o.side, None)
            IN IF all = {}
               THEN fills' = fills /\ book' = book /\ portfolio' = portfolio
               ELSE /\ Len(NewFills) = 1
                    /\ NewFills[1].quantity = Min2(o.quantity, SumAt(Opposite(book, o), all))
                    /\ TakenAt(o, all) = NewFills[1].quantity]_vars

\* C7 witness: a buy of 4 with limit 2 took both units at 1 and the one unit
\* at 2, exhausting both levels, and left the asks at 3 alone.
C7_Witness ==
    /\ last.name = "consume_taker_fill" /\ last.side = "buy"
    /\ last.quantity = 4 /\ last.price = 2
    /\ ret.filled_qty = 3 /\ ret.avg_px * 3 = 4 * PxScale
    /\ DOMAIN book.asks = {3} /\ book.asks[3] = 2

\* ---- SpecQueue: the maker queue model. One MakerQueueOrder, constructed
\* with any symbol, side, price, quantity, queue ahead and participation,
\* receives trades and visible-quantity updates in any order.

QueueAheads == 0..3
QueueQtys == 1..3
Participations == {<<1, 1>>, <<1, 2>>}
QueueTrades ==
    {[symbol |-> sy, price |-> p, quantity |-> q, is_buyer_maker |-> m] :
        sy \in Symbols, p \in 1..2, q \in {0, 2, 4}, m \in BOOLEAN}

InitQueue ==
    \E sy \in Symbols, s \in Sides, p \in 1..2, q \in QueueQtys,
       qa \in QueueAheads, tp \in Participations :
       Start(Config(0, 0, tp), EmptyBook,
             <<[id |-> "m",
                mo |-> [symbol |-> sy, side |-> s, price |-> p,
                        quantity |-> q, queue_ahead_qty |-> qa,
                        filled_qty |-> 0, trade_participation |-> tp]]>>)

\* mo.on_trade(trade)
QueueOnTrade(trade) ==
    LET r == on_trade(maker_orders[1].mo, trade)
    IN /\ maker_orders' = <<[id |-> "m", mo |-> r.mo]>>
       /\ ret' = [fill |-> r.fill]
       /\ last' = [name |-> "mo.on_trade", trade |-> trade]
       /\ UNCHANGED <<cfg, book, pending_submits, pending_cancels, seq,
                      canceled, fills, portfolio, now, ctx, gen, trace>>

\* mo.on_book_qty_update(new_visible_qty)
QueueOnBookQty(new_visible_qty) ==
    /\ maker_orders' = <<[id |-> "m",
                          mo |-> on_book_qty_update(maker_orders[1].mo, new_visible_qty)]>>
    /\ ret' = NoCall
    /\ last' = [name |-> "mo.on_book_qty_update", new_visible_qty |-> new_visible_qty]
    /\ UNCHANGED <<cfg, book, pending_submits, pending_cancels, seq,
                   canceled, fills, portfolio, now, ctx, gen, trace>>

NextQueue ==
    \/ \E tr \in QueueTrades : QueueOnTrade(tr)
    \/ \E q \in QueueAheads : QueueOnBookQty(q)

SpecQueue == InitQueue /\ [][NextQueue]_vars

\* The trade is at the order's symbol and price and its aggressor is on the
\* opposite side.
Matches(mo, trade) ==
    /\ trade.symbol = mo.symbol
    /\ trade.price = mo.price
    /\ (mo.side = "buy") <=> trade.is_buyer_maker

\* C8: MakerQueueOrder.on_trade changes the order only when the trade's
\* symbol matches, its price is the order's price and the aggressor is on
\* the opposite side. Then, with v = trade.quantity x trade_participation,
\* it lowers queue_ahead_qty by min(v, queue_ahead_qty) and fills the order
\* by min(remaining quantity, v - old queue_ahead_qty) from the excess only,
\* returning that fill; every other trade returns 0 and changes nothing.
C8_QueueOnTrade ==
    [][last'.name = "mo.on_trade" =>
         LET mo == maker_orders[1].mo
             mo2 == maker_orders'[1].mo
             tr == last'.trade
             v2 == tr.quantity * mo.trade_participation[1]
             d == mo.trade_participation[2]
             qa == mo.queue_ahead_qty
             rem == mo.quantity - mo.filled_qty
             fill == IF v2 > qa * d THEN Min2(rem, (v2 - qa * d) \div d) ELSE 0
         IN IF Matches(mo, tr)
            THEN /\ v2 % d = 0
                 /\ mo2.queue_ahead_qty * d = qa * d - Min2(v2, qa * d)
                 /\ mo2.filled_qty = mo.filled_qty + fill
                 /\ ret'.fill = fill
                 /\ [mo2 EXCEPT !.queue_ahead_qty = 0, !.filled_qty = 0]
                       = [mo EXCEPT !.queue_ahead_qty = 0, !.filled_qty = 0]
            ELSE mo2 = mo /\ ret'.fill = 0]_vars

\* C8 witness: a sell-aggressor trade of 4 at the price of a resting buy with
\* participation 1/2 and one unit ahead cleared the queue and filled one unit
\* of the three.
C8_Witness ==
    /\ last.name = "mo.on_trade" /\ last.trade.quantity = 4
    /\ last.trade.is_buyer_maker
    /\ maker_orders[1].mo.side = "buy"
    /\ maker_orders[1].mo.trade_participation = <<1, 2>>
    /\ maker_orders[1].mo.quantity = 3
    /\ maker_orders[1].mo.filled_qty = 1 /\ maker_orders[1].mo.queue_ahead_qty = 0
    /\ ret.fill = 1

\* ---- SpecMaker: resting orders. A broker without submit latency and with
\* a cancel latency of 1 takes a bid "a" at 1 and a post-only ask "b" at 2
\* (an id is submitted again only once its order is gone), depth updates of
\* one or two levels, among them updates that name the bid at 1 twice with
\* two quantities (apply_depth_update and on_depth_update take any list of
\* pairs), trades at both prices from both aggressors, cancels of "b" (one
\* at a time) and on_time calls.

MakerOrderSet == {LimitOrder("a", "buy", 2, 1, "GTC", FALSE),
                  LimitOrder("b", "sell", 1, 2, "GTC", TRUE)}
MakerUpdates ==
    {BidOnly(<<1, q>>) : q \in {0, 1, 3}} \cup {AskOnly(<<2, q>>) : q \in {0, 2}}
    \cup {[symbol |-> "BTCUSDT", bid_updates |-> <<<<2, 1>>, <<1, 2>>>>,
           ask_updates |-> <<<<2, 0>>>>]}
    \cup {[symbol |-> "BTCUSDT", bid_updates |-> <<<<1, q>>, <<1, 4 - q>>>>,
           ask_updates |-> <<>>] : q \in {1, 3}}
MakerTrades ==
    {[symbol |-> "BTCUSDT", price |-> 1, quantity |-> q, is_buyer_maker |-> TRUE] :
        q \in {2, 4}}
    \cup {[symbol |-> "BTCUSDT", price |-> 2, quantity |-> 2, is_buyer_maker |-> m] :
            m \in BOOLEAN}
MakerClock == 0..1

InitMaker == Fresh(Config(0, 1, <<1, 2>>), EmptyBook)

NextMaker ==
    \/ \E o \in MakerOrderSet :
          o.id \notin MakerIds(maker_orders) /\ Submit(o, FALSE)
    \/ /\ "b" \in MakerIds(maker_orders)
       /\ \A c \in pending_cancels : c.order_id # "b"
       /\ Cancel("b", now, FALSE)
    \/ \E t \in MakerClock : t >= now /\ OnTime(t, FALSE)
    \/ \E u \in MakerUpdates : OnDepthUpdate(u, TRUE)
    \/ \E tr \in MakerTrades : OnTrade(tr, FALSE)

SpecMaker == InitMaker /\ [][NextMaker]_vars

\* The resting order with id x, before and after the step.
Resting(x) == maker_orders[MakerOf(maker_orders, x)].mo
RestingAfter(x) == maker_orders'[MakerOf(maker_orders', x)].mo
\* The entries of a depth update at the level of the resting order mo.
EntriesAt(update, mo) ==
    LET l == IF mo.side = "buy" THEN update.bid_updates ELSE update.ask_updates
    IN {i \in 1..Len(l) : l[i][1] = mo.price}
\* The quantity the book shows at the level of mo after the step.
VisibleAfter(mo) ==
    DictGet(IF mo.side = "buy" THEN book'.bids ELSE book'.asks, mo.price, 0)

\* What the code keeps on every step: the queue ahead of a resting order
\* never increases and never drops below 0, and a depth update gives the
\* order the quantity of the first entry at its price on its side, when
\* that is smaller.
FirstEntryQty(update, mo) ==
    LET l == IF mo.side = "buy" THEN update.bid_updates ELSE update.ask_updates
    IN l[CHOOSE i \in EntriesAt(update, mo) : \A j \in EntriesAt(update, mo) : i <= j][2]
QueueAheadFollowsFirstEntry ==
    [][/\ \A x \in MakerIds(maker_orders') : RestingAfter(x).queue_ahead_qty >= 0
       /\ \A x \in MakerIds(maker_orders) \cap MakerIds(maker_orders') :
             RestingAfter(x).queue_ahead_qty <= Resting(x).queue_ahead_qty
       /\ last'.name = "on_depth_update" =>
             \A x \in MakerIds(maker_orders) :
                /\ x \in MakerIds(maker_orders')
                /\ RestingAfter(x).queue_ahead_qty =
                      IF EntriesAt(last'.update, Resting(x)) = {}
                         \/ FirstEntryQty(last'.update, Resting(x))
                               >= Resting(x).queue_ahead_qty
                      THEN Resting(x).queue_ahead_qty
                      ELSE FirstEntryQty(last'.update, Resting(x))]_vars

\* C9: from its creation to its removal a resting order's queue_ahead_qty
\* never increases and never drops below 0, whatever call is made
\* (on_depth_update, on_trade, submit, cancel, on_time); a depth update that
\* sets the visible quantity at the order's level to a value >=
\* queue_ahead_qty leaves it unchanged, one that sets a smaller value lowers
\* it to that value, and one that does not touch the level leaves it
\* unchanged.
C9_QueueAhead ==
    [][/\ \A x \in MakerIds(maker_orders') : RestingAfter(x).queue_ahead_qty >= 0
       /\ \A x \in MakerIds(maker_orders) \cap MakerIds(maker_orders') :
             RestingAfter(x).queue_ahead_qty <= Resting(x).queue_ahead_qty
       /\ last'.name = "on_depth_update" =>
             \A x \in MakerIds(maker_orders) :
                /\ x \in MakerIds(maker_orders')
                /\ RestingAfter(x).queue_ahead_qty =
                      IF EntriesAt(last'.update, Resting(x)) = {}
                         \/ VisibleAfter(Resting(x)) >= Resting(x).queue_ahead_qty
                      THEN Resting(x).queue_ahead_qty
                      ELSE VisibleAfter(Resting(x))]_vars

\* A depth update of two bid levels lowered the queue ahead of the resting
\* bid "a" from 3 to the 2 now visible at its level and left the resting ask
\* "b", whose level it emptied, at queue 0.
QueueLowered ==
    /\ last.name = "on_depth_update" /\ Len(last.update.bid_updates) = 2
    /\ MakerIds(last.before) = {"a", "b"}
    /\ last.before[MakerOf(last.before, "a")].mo.queue_ahead_qty = 3
    /\ last.before[MakerOf(last.before, "b")].mo.queue_ahead_qty = 2
    /\ MakerIds(maker_orders) = {"a", "b"}
    /\ maker_orders[MakerOf(maker_orders, "a")].mo.queue_ahead_qty = 2
    /\ maker_orders[MakerOf(maker_orders, "b")].mo.queue_ahead_qty = 0

\* A depth update named the bid at 1 twice, with 1 and then 3: the book
\* shows 3 at the level, and the queue ahead of "a" went from 3 to 1.
StaleQuantityPassed ==
    /\ last.name = "on_depth_update"
    /\ last.update.bid_updates = <<<<1, 1>>, <<1, 3>>>>
    /\ "a" \in MakerIds(last.before)
    /\ last.before[MakerOf(last.before, "a")].mo.queue_ahead_qty = 3
    /\ "a" \in MakerIds(maker_orders)
    /\ maker_orders[MakerOf(maker_orders, "a")].mo.queue_ahead_qty = 1
    /\ DictGet(book.bids, 1, 0) = 3
\* The same two entries in the other order: the book shows 1 at the level
\* and the queue ahead of "a" stayed at 3.
LastQuantityMissed ==
    /\ last.name = "on_depth_update"
    /\ last.update.bid_updates = <<<<1, 3>>, <<1, 1>>>>
    /\ "a" \in MakerIds(last.before)
    /\ last.before[MakerOf(last.before, "a")].mo.queue_ahead_qty = 3
    /\ "a" \in MakerIds(maker_orders)
    /\ maker_orders[MakerOf(maker_orders, "a")].mo.queue_ahead_qty = 3
    /\ DictGet(book.bids, 1, 0) = 1

\* The maker fills the step appends.
NewMakerFills == {i \in 1..Len(NewFills) : NewFills[i].liquidity = "maker"}

\* C10: a resting order always has 0 <= filled_qty <= quantity; an order
\* whose filled_qty reaches quantity is removed by the on_trade call that
\* completed it, so that no later trade or depth update fills it again:
\* every maker fill belongs to an order resting before the call, is positive
\* and at most its remaining quantity, and is the only one of the call for
\* that order; a fill of less leaves the order resting with filled_qty
\* raised by it; and a depth update appends no fill.
C10_FilledQty ==
    [][/\ \A x \in MakerIds(maker_orders') :
             /\ 0 <= RestingAfter(x).filled_qty
             /\ RestingAfter(x).filled_qty < RestingAfter(x).quantity
       /\ \A i \in NewMakerFills :
             LET x == NewFills[i].order_id
                 f == NewFills[i].quantity
             IN /\ x \in MakerIds(maker_orders)
                /\ \A j \in NewMakerFills : NewFills[j].order_id = x => j = i
                /\ 0 < f /\ f <= Resting(x).quantity - Resting(x).filled_qty
                /\ IF f = Resting(x).quantity - Resting(x).filled_qty
                   THEN x \notin MakerIds(maker_orders')
                   ELSE /\ x \in MakerIds(maker_orders')
                        /\ RestingAfter(x).filled_qty = Resting(x).filled_qty + f
                        /\ RestingAfter(x).quantity = Resting(x).quantity
       /\ last'.name = "on_depth_update" => fills' = fills]_vars

\* C10 witness: the bid "a" of quantity 2 was completed by two fills of 1 and
\* is no longer resting, while the ask "b" still rests.
C10_Witness ==
    /\ Len(fills) = 2
    /\ fills[1].order_id = "a" /\ fills[1].quantity = 1 /\ fills[1].liquidity = "maker"
    /\ fills[2].order_id = "a" /\ fills[2].quantity = 1 /\ fills[2].liquidity = "maker"
    /\ MakerIds(maker_orders) = {"b"}

\* The scale holds every average price the run computes.
\* ---- SpecPortfolio: a Portfolio driven alone by apply_fill and
\* apply_funding.  Quantities are counted in units of 2^-41 (about
\* 4.5e-13, exact as floats): 1e-12 lies between DustQty and DustQty + 1
\* units, so a quantity of 1..DustQty is dust and DustQty + 1 is the
\* smallest that is not.  The ledger in trace follows the fills of BTCUSDT.

DustQty == 2
FineQtys == 1..4
FillPrices == {PxScale, 2 * PxScale}
FillFees == {0, FeeDen}
FundingRates == {-1, 1}

\* The variables of the broker, for a specification that has no broker.
brokerVars == <<cfg, book, maker_orders, pending_submits, pending_cancels, seq,
                canceled, fills, now>>

NoBroker ==
    /\ cfg = Config(0, 0, <<1, 1>>)
    /\ book = EmptyBook
    /\ maker_orders = <<>>
    /\ pending_submits = {}
    /\ pending_cancels = {}
    /\ seq = 0
    /\ canceled = {}
    /\ fills = <<>>
    /\ now = 0

FlatPosition == [qty |-> 0, avg_price |-> 0]
PositionOf(pf, symbol) == DictGet(pf.positions, symbol, FlatPosition)
Signed(side, qty) == IF side = "buy" THEN qty ELSE -qty
Notional(qty, price) == qty * price * FeeDen

NewLedger == [calls |-> 0, net |-> 0, bought |-> 0, sold |-> 0,
              pure |-> TRUE, snapped |-> FALSE]

InitPortfolio ==
    /\ NoBroker
    /\ portfolio = [NewPortfolio EXCEPT !.dust = DustQty]
    /\ ctx = NoCall
    /\ gen = NoCall
    /\ trace = NewLedger
    /\ last = NoCall
    /\ ret = NoCall

\* portfolio.apply_fill(symbol, side, qty, price, fee_usdt)
ApplyFill(symbol, side, qty, price, fee_usdt) ==
    LET before == PositionOf(portfolio, symbol).qty
        raw == before + Signed(side, qty)
        own == symbol = "BTCUSDT"
    IN /\ trace.calls < MaxCalls
       /\ portfolio' = apply_fill(portfolio, symbol, side, qty, price, fee_usdt)
       /\ trace' = [calls |-> trace.calls + 1,
                    net |-> trace.net + (IF own THEN Signed(side, qty) ELSE 0),
                    bought |-> trace.bought
                        + (IF own /\ side = "buy" THEN Notional(qty, price) ELSE 0),
                    sold |-> trace.sold
                        + (IF own /\ side = "sell" THEN Notional(qty, price) ELSE 0),
                    pure |-> trace.pure /\ own /\ fee_usdt = 0,
                    snapped |-> trace.snapped \/ (own /\ raw # 0 /\ Abs(raw) <= DustQty)]
       /\ last' = [name |-> "apply_fill", symbol |-> symbol, side |-> side,
                   qty |-> qty, price |-> price, fee_usdt |-> fee_usdt,
                   before |-> before]
       /\ ret' = NoCall
       /\ UNCHANGED <<brokerVars, ctx, gen>>

\* portfolio.apply_funding(symbol, mark_price, funding_rate)
ApplyFunding(symbol, mark_price, funding_rate_num) ==
    LET r == apply_funding(portfolio, symbol, mark_price, funding_rate_num)
    IN /\ trace.calls < MaxCalls
       /\ portfolio' = r.pf
       /\ trace' = [trace EXCEPT !.calls = @ + 1, !.pure = FALSE]
       /\ last' = [name |-> "apply_funding", symbol |-> symbol,
                   mark_price |-> mark_price, funding_rate |-> funding_rate_num]
       /\ ret' = [pnl |-> r.pnl]
       /\ UNCHANGED <<brokerVars, ctx, gen>>

NextPortfolio ==
    \/ \E s \in Sides, q \in FineQtys, p \in FillPrices, f \in FillFees :
          ApplyFill("BTCUSDT", s, q, p, f)
    \/ \E s \in Sides, q \in {DustQty, DustQty + 1} :
          ApplyFill("ETHUSDT", s, q, PxScale, 0)
    \/ \E sy \in Symbols, r \in FundingRates : ApplyFunding(sy, PxScale, r)

SpecPortfolio == InitPortfolio /\ [][NextPortfolio]_vars

IsApplyFill == last'.name = "apply_fill"

\* C11: after any sequence of apply_fill and apply_funding calls every
\* position with qty = 0 has avg_price = 0 and no position holds a dust
\* quantity (0 < |qty| <= 1e-12); a fill whose resulting quantity is within
\* the dust threshold leaves the position exactly flat.
C11_FlatAndDust ==
    /\ [](\A sy \in DOMAIN portfolio.positions :
            LET pos == portfolio.positions[sy]
            IN /\ pos.qty = 0 => pos.avg_price = 0
               /\ ~(0 < Abs(pos.qty) /\ Abs(pos.qty) <= DustQty))
    /\ [][IsApplyFill =>
            LET c == last'
                raw == PositionOf(portfolio, c.symbol).qty + Signed(c.side, c.qty)
            IN Abs(raw) <= DustQty =>
                  PositionOf(portfolio', c.symbol) = FlatPosition]_vars

\* A fill has just left a residual of dust, not zero, from an open position.
C11_Witness ==
    /\ last.name = "apply_fill"
    /\ last.before > DustQty
    /\ last.before + Signed(last.side, last.qty) \in 1..DustQty
    /\ PositionOf(portfolio, last.symbol) = FlatPosition

\* The fills so far were all on BTCUSDT with zero fees, no funding was
\* applied, and every weighted average was exact.
OnlyFreeFills == trace.calls > 0 /\ trace.pure /\ portfolio.exact

Settled ==
    /\ PositionOf(portfolio, "BTCUSDT") = FlatPosition
    /\ portfolio.realized_pnl_usdt = trace.sold - trace.bought

\* C12: starting flat with zero fees and no funding, a sequence of fills on
\* one symbol whose quantities net to zero, none of which leaves a residual
\* of dust to be snapped, leaves qty = 0, avg_price = 0 and
\* realized_pnl_usdt equal to the sell notional minus the buy notional; so
\* buy X at P1 then sell X at P2 realizes X * (P2 - P1).
C12_RoundTrip ==
    (OnlyFreeFills /\ ~trace.snapped /\ trace.net = 0) => Settled

\* C12 as stated: any sequence of fills that returns the position to flat.
C12_AnyRoundTrip ==
    (/\ OnlyFreeFills
     /\ last.name = "apply_fill" /\ last.before # 0
     /\ PositionOf(portfolio, "BTCUSDT").qty = 0) => Settled

\* Two buys at different prices, then one sell that closes them at a profit
\* or a loss.
C12_Witness ==
    /\ OnlyFreeFills /\ ~trace.snapped /\ trace.net = 0
    /\ trace.calls = 3
    /\ last.name = "apply_fill" /\ last.side = "sell" /\ last.before = last.qty
    /\ trace.bought = Notional(1, PxScale) + Notional(3, 2 * PxScale)
    /\ portfolio.realized_pnl_usdt # 0

\* ---- SpecFees: a broker without latency whose fills are of both kinds and
\* both sides: market orders take from a bid at 2 and an ask at 3, post-only
\* orders rest at 1 and at 3 and are filled by trades there.  The fee
\* fractions are the defaults, or one of them negated: the constructor of
\* SimBroker takes any value.

FeeBooks == {apply_depth_update(EmptyBook, <<<<2, b>>>>, <<<<3, a>>>>) :
                b \in 0..2, a \in 0..2}
FeeOrders == {MarketOrder("t", s, q) : s \in Sides, q \in OrderQtys}
             \cup {LimitOrder("m", "buy", 1, 1, "GTC", TRUE),
                   LimitOrder("n", "sell", 1, 3, "GTC", TRUE)}
FeeUpdates == {BidOnly(<<2, q>>) : q \in 0..2} \cup {AskOnly(<<3, q>>) : q \in 0..2}
FeeTrades == {[symbol |-> "BTCUSDT", price |-> 1, quantity |-> 4, is_buyer_maker |-> TRUE],
              [symbol |-> "BTCUSDT", price |-> 3, quantity |-> 4, is_buyer_maker |-> FALSE]}

FeeConfigs ==
    {Config(0, 0, <<1, 1>>),
     [Config(0, 0, <<1, 1>>) EXCEPT !.maker_fee_frac = -MakerFeeNum],
     [Config(0, 0, <<1, 1>>) EXCEPT !.taker_fee_frac = -TakerFeeNum]}

InitFees == \E c \in FeeConfigs, b \in FeeBooks : Fresh(c, b)

NextFees ==
    \/ \E o \in FeeOrders : Submit(o, FALSE)
    \/ \E u \in FeeUpdates : OnDepthUpdate(u, FALSE)
    \/ \E tr \in FeeTrades : OnTrade(tr, FALSE)

SpecFees == InitFees /\ [][NextFees]_vars

RECURSIVE SumFees(_)
SumFees(fs) == IF fs = <<>> THEN 0
               ELSE SumFees(SubSeq(fs, 1, Len(fs) - 1)) + fs[Len(fs)].fee_usdt

\* The portfolio the fills fs make when no fee is charged.
RECURSIVE WithoutFees(_)
WithoutFees(fs) ==
    IF fs = <<>> THEN NewPortfolio
    ELSE LET f == fs[Len(fs)]
         IN apply_fill(WithoutFees(SubSeq(fs, 1, Len(fs) - 1)),
                       f.symbol, f.side, f.quantity, f.price, 0)

\* What the code keeps under every fee fraction: fees_paid_usdt is the sum
\* of the fees of the fills, and realized_pnl_usdt is the realized pnl of
\* the same fills without fees, less that sum.
FeesAccounted ==
    /\ portfolio.fees_paid_usdt = SumFees(fills)
    /\ portfolio.realized_pnl_usdt = WithoutFees(fills).realized_pnl_usdt - SumFees(fills)
\* With the default fee fractions no fee is negative.
DefaultFeesCost ==
    cfg = Config(0, 0, <<1, 1>>) =>
       /\ portfolio.fees_paid_usdt >= 0
       /\ \A i \in 1..Len(fills) : fills[i].fee_usdt > 0

\* C13: in every reachable state of a broker and its portfolio
\* fees_paid_usdt >= 0, and it never decreases from one state to the next;
\* each fill adds its fee to fees_paid_usdt and subtracts the same amount
\* from realized_pnl_usdt.
C13_Fees ==
    /\ [](/\ portfolio.fees_paid_usdt >= 0
          /\ portfolio.fees_paid_usdt = SumFees(fills)
          /\ portfolio.realized_pnl_usdt
                = WithoutFees(fills).realized_pnl_usdt - SumFees(fills))
    /\ [][/\ portfolio'.fees_paid_usdt >= portfolio.fees_paid_usdt
          /\ portfolio'.fees_paid_usdt - portfolio.fees_paid_usdt = SumFees(NewFills)
          /\ \A i \in 1..Len(NewFills) : NewFills[i].fee_usdt >= 0]_vars

\* A taker fill and a maker fill, each with a fee, the second closing the
\* position the first opened at another price.
BothFeesCharged ==
    /\ Len(fills) = 2
    /\ {fills[1].liquidity, fills[2].liquidity} = {"maker", "taker"}
    /\ fills[1].fee_usdt > 0 /\ fills[2].fee_usdt > 0
    /\ PositionOf(portfolio, "BTCUSDT") = FlatPosition
    /\ WithoutFees(fills).realized_pnl_usdt # 0
    /\ portfolio.fees_paid_usdt = fills[1].fee_usdt + fills[2].fee_usdt
\* A broker made with a negative taker_fee_frac filled a market buy: the
\* fee of the fill is negative and fees_paid_usdt has gone below 0.
RebatePaid ==
    /\ cfg.taker_fee_frac < 0
    /\ Len(fills) = 1 /\ fills[1].liquidity = "taker" /\ fills[1].side = "buy"
    /\ fills[1].fee_usdt < 0
    /\ portfolio.fees_paid_usdt = fills[1].fee_usdt

\* ---- runs of BacktestEngine over time-ordered events, with a strategy
\* that has every callback.  trace holds the calls of the last iteration,
\* the number of events consumed, and for the funding gate the pairs
\* (symbol, next_funding_time_ms) applied so far and those seen so far on
\* an event at or after the funding time.

NoMove == [kind |-> "none"]
SubmitMove(o) == [kind |-> "submit", order |-> o]
CancelMove(i) == [kind |-> "cancel", order_id |-> i]

EventMoves == {NoMove, SubmitMove(MarketOrder("a", "buy", 1)),
               SubmitMove(LimitOrder("b", "buy", 1, 1, "GTC", TRUE))}
TickMoves == {NoMove, SubmitMove(MarketOrder("k", "buy", 1))}

DepthEvent(t, u) == [kind |-> "depth", event_time_ms |-> t, symbol |-> u.symbol,
                     bid_updates |-> u.bid_updates, ask_updates |-> u.ask_updates]
TradeEvent(t, p, q, m) == [kind |-> "trade", event_time_ms |-> t, symbol |-> "BTCUSDT",
                           price |-> p, quantity |-> q, is_buyer_maker |-> m]
MarkEvent(t, sy, nft) == [kind |-> "mark", event_time_ms |-> t, symbol |-> sy,
                          mark_price |-> PxScale, funding_rate |-> 1,
                          next_funding_time_ms |-> nft]
TickerEvent(t) == [kind |-> "ticker", event_time_ms |-> t, symbol |-> "BTCUSDT",
                   last_price |-> 1]
OpenInterestEvent(t) == [kind |-> "open_interest", event_time_ms |-> t,
                         symbol |-> "BTCUSDT", sum_open_interest |-> 1]
LiquidationEvent(t) == [kind |-> "liquidation", event_time_ms |-> t,
                        symbol |-> "BTCUSDT", side |-> "sell", quantity |-> 1, price |-> 1]
\* An object with an event_time_ms that is none of the event classes.
OtherEvent(t) == [kind |-> "other", event_time_ms |-> t, symbol |-> "BTCUSDT"]

NewContext(I) == [tick_interval_ms |-> I, next_tick_ms |-> None, books |-> EmptyDict,
                  mark |-> EmptyDict, ticker |-> EmptyDict,
                  open_interest |-> EmptyDict, liquidation |-> EmptyDict,
                  last_funding_applied_ms |-> EmptyDict, phase |-> "running"]

\* The run the variables hold.
Engine == [w |-> World, now_ms |-> now, ctx |-> ctx, calls |-> trace.calls]

StartEngine(c, I) ==
    /\ cfg = c
    /\ book = EmptyBook
    /\ maker_orders = <<>>
    /\ pending_submits = {}
    /\ pending_cancels = {}
    /\ seq = 0
    /\ canceled = {}
    /\ fills = <<>>
    /\ portfolio = NewPortfolio
    /\ now = 0
    /\ ctx = NewContext(I)
    /\ trace = [calls |-> <<>>, events |-> 0, funded |-> {}, seen |-> {}]
    /\ gen = NoCall
    /\ last = NoCall
    /\ ret = NoCall

FundingCalls(calls) == {i \in 1..Len(calls) : calls[i].call = "apply_funding"}

\* The engine goes from Engine to r.
EngineBecomes(r, ev) ==
    LET pair == <<ev.symbol, ev.next_funding_time_ms>>
    IN /\ Becomes(r.w, r.now_ms)
       /\ ctx' = r.ctx
       /\ trace' = [calls |-> r.calls,
                    events |-> trace.events + (IF r.ctx.phase = "running" THEN 1 ELSE 0),
                    funded |-> trace.funded \cup
                        (IF FundingCalls(r.calls) # {} THEN {pair} ELSE {}),
                    seen |-> trace.seen \cup
                        (IF ev.kind = "mark"
                            /\ ev.event_time_ms >= ev.next_funding_time_ms
                         THEN {pair} ELSE {})]
       /\ UNCHANGED <<ret, gen>>

\* One iteration of the loop of run() on the next event of the stream.
RunEvent(ev, tick_moves, move) ==
    /\ ctx.phase = "running"
    /\ trace.events < MaxEvents
    /\ \E r \in {run_event(Engine, ev, tick_moves, move)} : EngineBecomes(r, ev)
    /\ last' = [name |-> "run_event", event |-> ev, tick_moves |-> tick_moves,
                move |-> move]

\* The stream is exhausted: the last tick and on_end.
RunEnd(move, end_move) ==
    /\ ctx.phase = "running"
    /\ \E r \in {run_end(Engine, move, end_move)} : EngineBecomes(r, TickerEvent(now))
    /\ last' = [name |-> "run_end", move |-> move, end_move |-> end_move]

\* ---- SpecFunding: the funding gate.  No ticks, no latency; from an empty
\* book, depth that sets the ask at 2; mark prices of two symbols whose
\* funding times lie before, at and after the event times, repeated and
\* out of order; tickers and an object of no event class; a strategy that
\* buys at market, so that funding finds a position, in on_event and on_end.

FundingEvents(t) ==
    {MarkEvent(t, "BTCUSDT", nft) : nft \in 0..MaxTime}
    \cup {MarkEvent(t, "ETHUSDT", 1), TickerEvent(t), OtherEvent(t),
          DepthEvent(t, AskOnly(<<2, 2>>))}
FundingMoves == {NoMove, SubmitMove(MarketOrder("a", "buy", 1)), CancelMove("a")}

InitFunding == StartEngine(Config(0, 0, <<1, 1>>), 0)

NextFunding ==
    \/ \E t \in now..MaxTime : \E ev \in FundingEvents(t), move \in FundingMoves :
          RunEvent(ev, <<>>, move)
    \/ \E end_move \in FundingMoves : RunEnd(NoMove, end_move)

SpecFunding == InitFunding /\ [][NextFunding]_vars

IsRunEvent == last'.name = "run_event"
\* The iteration applied funding.
Funded == FundingCalls(trace'.calls) # {}

\* C14: over any event stream, for each symbol and each distinct
\* next_funding_time_ms, funding is applied to the portfolio at most once,
\* however many MarkPrice events carry that value; when it is applied, it is
\* on the first MarkPrice event of that symbol carrying the value with
\* event_time_ms >= the value, with that event's mark price and funding rate.
C14_FundingOnce ==
    [][/\ Funded => IsRunEvent /\ last'.event.kind = "mark"
       /\ (IsRunEvent /\ Funded) =>
            LET mp == last'.event
                pair == <<mp.symbol, mp.next_funding_time_ms>>
                c == trace'.calls[CHOOSE i \in FundingCalls(trace'.calls) : TRUE]
                qty == PositionOf(portfolio, mp.symbol).qty
            IN /\ Cardinality(FundingCalls(trace'.calls)) = 1
               /\ pair \notin trace.funded
               /\ pair \notin trace.seen
               /\ mp.event_time_ms >= mp.next_funding_time_ms
               /\ c.symbol = mp.symbol
               /\ c.mark_price = mp.mark_price /\ c.funding_rate = mp.funding_rate
               /\ c.pnl = -(qty * mp.mark_price) * mp.funding_rate
               /\ last'.move = NoMove =>
                     portfolio' = [portfolio EXCEPT !.realized_pnl_usdt = @ + c.pnl]]_vars

\* An object of no event class ended the run: TypeError, after on_time and
\* without on_event.
UnsupportedRaised ==
    /\ last.name = "run_event" /\ last.event.kind = "other"
    /\ ctx.phase = "raised"
    /\ now = last.event.event_time_ms
    /\ Len(trace.calls) = 2 /\ trace.calls[1].call = "on_time"
    /\ trace.calls[2].call = "dispatch"
\* A MarkPrice event repeats a funding time that was already applied, on an
\* open position, and funding is not applied again.
C14_Witness ==
    /\ last.name = "run_event" /\ last.event.kind = "mark" /\ last.move = NoMove
    /\ last.event.event_time_ms >= last.event.next_funding_time_ms
    /\ <<last.event.symbol, last.event.next_funding_time_ms>> \in trace.funded
    /\ FundingCalls(trace.calls) = {}
    /\ PositionOf(portfolio, last.event.symbol).qty > 0
    /\ portfolio.realized_pnl_usdt + portfolio.fees_paid_usdt < 0

\* ---- SpecEngine: the loop of run(), on an empty book.  Ticks every 1 or
\* 2 ms with no submit latency, every 2 ms with a latency of 1; depth that
\* sets and removes the ask at 2, a trade at 1, and depth with a negative
\* quantity at 1, on which the strategy does nothing; a strategy that buys
\* at market (in on_event, in on_tick and in on_end), rests a bid at 1 and,
\* as its first order in the on_event of a trade, or in on_end, submits a
\* market order of quantity 0; one more run with ticks every 2 ms, no
\* latency, a broker whose maker_trade_participation is 2 and a strategy
\* that acts in on_event and on_end only.

TickIntervals == 1..2

EngineEvents(t) ==
    {DepthEvent(t, AskOnly(<<2, q>>)) : q \in {0, 2}} \cup {TradeEvent(t, 1, 2, TRUE)}
\* A depth event with a negative quantity at the price of the strategy's bid.
NegativeDepth(t) == DepthEvent(t, BidOnly(<<1, -1>>))

\* A broker whose maker_trade_participation is 2: SimBroker checks nothing
\* when it is made, MakerQueueOrder.on_trade raises on it.
OverParticipation == Config(0, 0, <<2, 1>>)
\* A market order of quantity 0, which consume_taker_fill refuses.
RefusedMove == SubmitMove(MarketOrder("z", "buy", 0))

\* What the strategy does in on_tick: nothing, in the run of that broker.
EngineTickMoves == IF cfg = OverParticipation THEN {NoMove} ELSE TickMoves

InitEngine ==
    \/ \E sl \in 0..1, I \in TickIntervals :
          (sl = 0 \/ I = 2) /\ StartEngine(Config(sl, 0, <<1, 1>>), I)
    \/ StartEngine(OverParticipation, 2)

NextEngine ==
    \/ \E t \in now..MaxTime : \E ev \in EngineEvents(t), move \in EventMoves :
          \E tick_moves \in [1..ticks_due(ctx, t) -> EngineTickMoves] :
             RunEvent(ev, tick_moves, move)
    \/ \E t \in now..MaxTime :
          RunEvent(NegativeDepth(t), [k \in 1..ticks_due(ctx, t) |-> NoMove], NoMove)
    \/ /\ pending_submits = {} /\ maker_orders = <<>> /\ fills = <<>>
       /\ \E t \in now..MaxTime :
             RunEvent(TradeEvent(t, 1, 2, TRUE), [k \in 1..ticks_due(ctx, t) |-> NoMove],
                      RefusedMove)
    \/ \E move \in EngineTickMoves, end_move \in EventMoves \cup {RefusedMove} :
          RunEnd(move, end_move)

SpecEngine == InitEngine /\ [][NextEngine]_vars

\* The names of the calls made, in order.
CallNames(calls) == [i \in 1..Len(calls) |-> calls[i].call]
\* The last three calls of an iteration.
LastCalls(calls) == SubSeq(calls, Len(calls) - 2, Len(calls))
\* The pending submits due by t, in the current state.
DueBy(t) == {p \in pending_submits : p.due <= t}
\* What a market order o takes from book b: [avg_px, filled_qty, book].
MarketTake(b, o) == consume_taker_fill(b, o.side, o.quantity, None)
\* The fill f is the one fill_taker makes of o taking r at time t.
TakerFillOf(f, o, r, t) ==
    /\ f.order_id = o.id /\ f.liquidity = "taker" /\ f.event_time_ms = t
    /\ f.quantity = r.filled_qty /\ f.price = r.avg_px

\* C15: for each event at time t the engine performs, in this order,
\* (1) now_ms := t and broker.on_time(t), draining due cancels then due
\* submits, (2) the dispatch of the event to book, broker and state,
\* (3) strategy.on_event.  So a pending submit due at or before t is matched
\* against the book as it was before the event is applied, and a
\* zero-latency order submitted inside on_event is matched against the book
\* after the event is applied.  An iteration that an exception ends
\* stops at the call that raised it.
C15_EventOrder ==
    /\ [][(IsRunEvent /\ ctx'.phase = "running") =>
         LET ev == last'.event
             t == ev.event_time_ms
             calls == trace'.calls
             c == LastCalls(calls)
             move == last'.move
         IN /\ Len(calls) >= 3
            /\ c[1] = [call |-> "on_time", now_ms |-> t]
            /\ c[2].call = "dispatch" /\ c[2].event = ev /\ c[2].due = {}
            /\ c[3].call = "on_event" /\ c[3].event = ev
            /\ now' = t
            /\ \A i \in 1..(Len(calls) - 3) : calls[i].call \in {"on_time", "on_tick"}
            \* the strategy sees the event applied to the book the broker left
            /\ c[3].book = IF ev.kind = "depth"
                            THEN apply_depth_update(c[2].book, ev.bid_updates, ev.ask_updates)
                            ELSE c[2].book
            \* a due market order, alone and without ticks: filled from the
            \* book of before the event
            /\ (/\ Len(calls) = 3
                /\ \E p \in DueBy(t) : DueBy(t) = {p} /\ p.order.order_type = "market"
                /\ canceled = {})
               => LET o == (CHOOSE p \in DueBy(t) : TRUE).order
                      r == MarketTake(book, o)
                  IN /\ c[2].book = r.book
                     /\ IF r.filled_qty > 0
                        THEN Len(NewFills) >= 1 /\ TakerFillOf(NewFills[1], o, r, t)
                        ELSE \A i \in 1..Len(NewFills) : NewFills[i].order_id # o.id
            \* a market order submitted in on_event without latency: filled
            \* from the book of after the event
            /\ (/\ move.kind = "submit" /\ move.order.order_type = "market"
                /\ cfg.submit_latency_ms = 0)
               => LET o == move.order
                      r == MarketTake(c[3].book, o)
                  IN /\ book' = r.book
                     /\ IF r.filled_qty > 0
                        THEN Len(NewFills) >= 1
                             /\ TakerFillOf(NewFills[Len(NewFills)], o, r, t)
                        ELSE \A i \in 1..Len(NewFills) : NewFills[i].order_id # o.id]_vars
    \* an iteration that an exception ended (raised by broker.on_time, by
    \* the dispatch or inside on_event): the calls made are still in this
    \* order, and none follows the one that raised
    /\ [][(IsRunEvent /\ ctx'.phase = "raised") =>
            LET ev == last'.event
                t == ev.event_time_ms
                calls == trace'.calls
                dispatched == {i \in 1..Len(calls) : calls[i].call = "dispatch"}
                handled == {i \in 1..Len(calls) : calls[i].call = "on_event"}
            IN /\ Cardinality(dispatched) <= 1 /\ Cardinality(handled) <= 1
               /\ \A i \in dispatched :
                     /\ i >= 2 /\ calls[i - 1] = [call |-> "on_time", now_ms |-> t]
                     /\ calls[i].event = ev /\ calls[i].due = {}
                     /\ \A k \in 1..(i - 1) : calls[k].call \in {"on_time", "on_tick"}
                     /\ now' = t
               /\ \A j \in handled :
                     j = Len(calls) /\ (j - 1) \in dispatched /\ calls[j].event = ev
               /\ dispatched = {} =>
                     /\ \A k \in 1..Len(calls) : calls[k].call \in {"on_time", "on_tick"}
                     /\ calls # <<>> /\ calls[Len(calls)].call = "on_time"
                     /\ now' = calls[Len(calls)].now_ms /\ now' <= t]_vars

\* The event removed the only ask, and the market buy that was pending and
\* due at the event's time was filled from that ask at that time.
\* A depth event with a negative quantity at the price of the resting bid
\* ended the run in the dispatch: the bid is as it was.
DepthRaised ==
    /\ last.name = "run_event" /\ last.event = NegativeDepth(now)
    /\ ctx.phase = "raised"
    /\ Len(maker_orders) = 1 /\ maker_orders[1].id = "b"
    /\ maker_orders[1].mo.queue_ahead_qty = 0
\* The market order of quantity 0, queued under a latency of 1, was refused
\* in the on_time of the event that found it due: no dispatch, no on_event.
OnTimeRaised ==
    /\ last.name = "run_event" /\ ctx.phase = "raised"
    /\ cfg.submit_latency_ms = 1
    /\ trace.calls = <<[call |-> "on_time", now_ms |-> now]>>
    /\ now = last.event.event_time_ms
    /\ ctx.next_tick_ms > now
    /\ pending_submits = {}
\* The same in the on_time of a tick: on_tick was not called and the tick
\* was not advanced.
TickOnTimeRaised ==
    /\ last.name = "run_event" /\ ctx.phase = "raised"
    /\ cfg.submit_latency_ms = 1
    /\ trace.calls = <<[call |-> "on_time", now_ms |-> now]>>
    /\ ctx.next_tick_ms = now
    /\ pending_submits = {}
\* The same in the on_time of the final tick: on_tick and on_end were not
\* called.
FinalTickRaised ==
    /\ last.name = "run_end" /\ ctx.phase = "raised"
    /\ trace.calls = <<[call |-> "on_time", now_ms |-> now]>>
    /\ pending_submits = {}
\* Without latency a market order of quantity 0 submitted in on_end was
\* refused there, after the final tick: the run raised out of on_end.
EndRaised ==
    /\ last.name = "run_end" /\ last.end_move = RefusedMove /\ ctx.phase = "raised"
    /\ cfg.submit_latency_ms = 0
    /\ CallNames(trace.calls) = <<"on_time", "on_tick", "on_end">>
    /\ fills = trace.calls[3].fills
\* Without latency a market buy submitted in on_end filled inside on_end.
EndFilled ==
    /\ last.name = "run_end" /\ last.end_move.kind = "submit" /\ ctx.phase = "ended"
    /\ cfg.submit_latency_ms = 0
    /\ Len(fills) = Len(trace.calls[Len(trace.calls)].fills) + 1
    /\ fills[Len(fills)].event_time_ms = now
\* Without latency the order was refused at the submit inside on_event.
StrategyRaised ==
    /\ last.name = "run_event" /\ last.move = RefusedMove /\ ctx.phase = "raised"
    /\ cfg.submit_latency_ms = 0
    /\ trace.calls[Len(trace.calls)].call = "on_event"
    /\ pending_submits = {}
\* A trade at the price of the bid resting under a participation of 2 was
\* refused by on_trade: no fill, the bid as it was, no on_event.
TradeRaised ==
    /\ last.name = "run_event" /\ last.event.kind = "trade" /\ ctx.phase = "raised"
    /\ cfg = OverParticipation
    /\ trace.calls[Len(trace.calls)].call = "dispatch"
    /\ fills = <<>>
    /\ Len(maker_orders) = 1 /\ maker_orders[1].id = "b"
    /\ maker_orders[1].mo.filled_qty = 0
\* The same event with no bid resting is dispatched and on_event runs.
NegativeDepthPassed ==
    /\ last.name = "run_event" /\ last.event = NegativeDepth(now)
    /\ ctx.phase = "running"
    /\ maker_orders = <<>>
    /\ trace.calls[Len(trace.calls)].call = "on_event"
C15_Witness ==
    /\ last.name = "run_event" /\ last.event.kind = "depth"
    /\ last.event.ask_updates = <<<<2, 0>>>>
    /\ Len(trace.calls) = 3
    /\ cfg.submit_latency_ms = 1
    /\ Len(fills) = 1 /\ fills[1].event_time_ms = now /\ fills[1].order_id = "a"
    /\ fills[1].quantity = 1 /\ fills[1].price = 2 * PxScale
    /\ DOMAIN book.asks = {}
    /\ last.move = NoMove

\* The times of the on_tick calls among calls, in order.
RECURSIVE TickTimes(_)
TickTimes(calls) ==
    IF calls = <<>> THEN <<>>
    ELSE IF Head(calls).call = "on_tick"
         THEN <<Head(calls).now_ms>> \o TickTimes(Tail(calls))
         ELSE TickTimes(Tail(calls))

\* Every on_tick(t) among calls comes right after on_time(t).
TimeBeforeTick(calls) ==
    \A i \in 1..Len(calls) :
       calls[i].call = "on_tick" =>
          i > 1 /\ calls[i - 1] = [call |-> "on_time", now_ms |-> calls[i].now_ms]

\* The next tick is a multiple of the interval, and in the loop the last
\* tick fired is the last one at or before the clock.
TickGrid ==
    (ctx.tick_interval_ms > 0 /\ ctx.next_tick_ms # None) =>
       /\ ctx.next_tick_ms % ctx.tick_interval_ms = 0
       /\ ctx.phase = "running" =>
             /\ ctx.next_tick_ms - ctx.tick_interval_ms <= now
             /\ now < ctx.next_tick_ms

\* C16: with tick_interval_ms = I > 0 and a strategy that has on_tick,
\* ticks fire at consecutive multiples of I starting at floor(t0 / I) * I
\* for the first event time t0, none skipped and none repeated; every tick
\* whose time is <= an event's time fires (broker.on_time(tick), then
\* on_tick) before that event is dispatched, the tick at the event's time
\* included, and no tick later than an event's time fires before that event.
\* A run that an exception ends fires no tick after it.
C16_Ticks ==
    /\ []TickGrid
    /\ [][(IsRunEvent /\ ctx.tick_interval_ms > 0) =>
            LET I == ctx.tick_interval_ms
                t == last'.event.event_time_ms
                first == IF ctx.next_tick_ms = None THEN (t \div I) * I
                         ELSE ctx.next_tick_ms
                ticks == TickTimes(trace'.calls)
                n == Len(ticks)
            IN /\ \A k \in 1..n : ticks[k] = first + (k - 1) * I /\ ticks[k] <= t
               /\ TimeBeforeTick(trace'.calls)
               /\ \A i \in 1..Len(trace'.calls) :
                     trace'.calls[i].call = "dispatch" => i > 2 * n
               /\ IF \/ ctx'.phase = "running"
                     \/ \E i \in 1..Len(trace'.calls) : trace'.calls[i].call = "dispatch"
                  THEN ctx'.next_tick_ms = first + n * I /\ ctx'.next_tick_ms > t
                  \* an exception ended the run inside the loop of ticks
                  ELSE ctx'.next_tick_ms \in {first + n * I, first + (n - 1) * I}]_vars
    /\ [][last'.name = "run_end" =>
            /\ TimeBeforeTick(trace'.calls)
            /\ IF \/ ctx'.phase = "ended"
                  \/ \E i \in 1..Len(trace'.calls) : trace'.calls[i].call = "on_end"
               THEN TickTimes(trace'.calls) =
                       IF ctx.next_tick_ms = None THEN <<>> ELSE <<ctx.next_tick_ms>>
               \* an exception of the final on_time ended the run before on_tick
               ELSE /\ ctx.next_tick_ms # None
                    /\ trace'.calls = <<[call |-> "on_time", now_ms |-> ctx.next_tick_ms]>>]_vars

\* Ticks every 1 ms and an event at time 2 after one at time 0: the ticks
\* of 1 and of 2 fired, then the event was dispatched.
C16_Witness ==
    /\ ctx.tick_interval_ms = 1
    /\ last.name = "run_event" /\ last.event.event_time_ms = 2
    /\ Len(trace.calls) = 7
    /\ TickTimes(trace.calls) = <<1, 2>>
    /\ trace.calls[5] = [call |-> "on_time", now_ms |-> 2]
    /\ trace.calls[6].call = "dispatch"
    /\ ctx.next_tick_ms = 3

\* --------------------------------------------- merge_event_streams alone
\* The streams handed to merge_event_streams: StreamIds streams of at most
\* MaxLen events each, with any times of StreamTimes in any order, sorted
\* or not.  gen is the generator's frame, trace the events yielded so far.
StreamIds == 1..3
StreamTimes == 1..3
Stamps == UNION {[1..n -> StreamTimes] : n \in 0..MaxLen}
Tagged(k, ts) ==
    [i \in 1..Len(ts) |-> [event_time_ms |-> ts[i], stream |-> k, index |-> i]]

NoEngine ==
    /\ NoBroker
    /\ portfolio = NewPortfolio
    /\ ctx = NoCall
    /\ last = NoCall
    /\ ret = NoCall

InitMerge ==
    \E ts \in [StreamIds -> Stamps] :
       /\ NoEngine
       /\ gen = [streams |-> [k \in StreamIds |-> Tagged(k, ts[k])],
                 phase |-> "new", heap |-> {}, seq |-> 0, last |-> <<>>]
       /\ trace = <<>>

\* next(merged)
MergeNext ==
    LET r == merge_next(gen)
    IN /\ gen' = r.g
       /\ trace' = trace \o r.yield
       /\ UNCHANGED <<brokerVars, portfolio, ctx, last, ret>>

NextMerge == MergeNext

SpecMerge == InitMerge /\ [][NextMerge]_vars

Ordered(events) ==
    \A i, j \in 1..Len(events) :
       i < j => events[i].event_time_ms <= events[j].event_time_ms
InputsOrdered == \A k \in StreamIds : Ordered(gen.streams[k])
InputEvents == UNION {{gen.streams[k][i] : i \in 1..Len(gen.streams[k])} : k \in StreamIds}
Yielded(k) == Cardinality({i \in 1..Len(trace) : trace[i].stream = k})
Buffered(k) == {x \in gen.heap : x.it = k}
\* Among yielded events of one time, earlier-listed streams come first.
TiesByStream ==
    \A i, j \in 1..Len(trace) :
       (i < j /\ trace[i].event_time_ms = trace[j].event_time_ms)
          => trace[i].stream <= trace[j].stream

\* C17: what merge_event_streams has yielded is a stable merge of its
\* inputs.  Every yielded event is an input event and none is yielded
\* twice; once the generator is exhausted every input event has been
\* yielded; the events of one stream are yielded in their order in that
\* stream; when every input is non-decreasing in event_time_ms the output
\* is too, and then among events of equal event_time_ms an event of an
\* earlier-listed stream is yielded before one of a later-listed stream;
\* while the generator is suspended at most one event per stream is
\* buffered, the one after the stream's last yielded event.
C17_StableMerge ==
    /\ \A i \in 1..Len(trace) : trace[i] \in InputEvents
    /\ \A i, j \in 1..Len(trace) : i < j => trace[i] # trace[j]
    /\ gen.phase = "done" => {trace[i] : i \in 1..Len(trace)} = InputEvents
    /\ \A i, j \in 1..Len(trace) :
          (i < j /\ trace[i].stream = trace[j].stream) => trace[i].index < trace[j].index
    /\ InputsOrdered => Ordered(trace)
    /\ InputsOrdered => TiesByStream
    /\ \A k \in StreamIds :
          /\ Cardinality(Buffered(k)) <= 1
          /\ \A x \in Buffered(k) :
                /\ x.ev = gen.streams[k][x.ev.index]
                /\ x.time = x.ev.event_time_ms
                /\ x.ev.index <= Yielded(k) + 1

\* C17 as stated, for the tie rule: whatever the inputs, among yielded
\* events of equal event_time_ms an event of an earlier-listed stream is
\* yielded before one of a later-listed stream.
C17_TiesAnyInput == TiesByStream

\* Ordered inputs have been merged to the end: two streams held events of
\* one time, a stream held two events, and an empty stream was listed
\* before a non-empty one.
C17_Witness ==
    /\ gen.phase = "done"
    /\ InputsOrdered
    /\ \E i, j \in 1..Len(trace) :
          /\ i < j
          /\ trace[i].event_time_ms = trace[j].event_time_ms
          /\ trace[i].stream < trace[j].stream
    /\ \E k \in StreamIds : Len(gen.streams[k]) = MaxLen
    /\ \E k, m \in StreamIds : k < m /\ gen.streams[k] = <<>> /\ gen.streams[m] # <<>>

\* ---------------------------------------------- slice_event_stream alone
\* One stream of at most MaxLen + 1 events, in any order, sliced with each
\* bound absent (None) or one of SliceMs, start_ms above end_ms included.
SliceMs == 0..4
SliceStamps == UNION {[1..n -> StreamTimes] : n \in 0..(MaxLen + 1)}

InitSlice ==
    \E ts \in SliceStamps, start_ms \in SliceMs \cup {None}, end_ms \in SliceMs \cup {None} :
       /\ NoEngine
       /\ gen = [events |-> Tagged(1, ts), start_ms |-> start_ms, end_ms |-> end_ms,
                 pos |-> 0, phase |-> "new"]
       /\ trace = <<>>

\* next(sliced)
SliceNext ==
    LET r == slice_next(gen)
    IN /\ gen' = r.g
       /\ trace' = trace \o r.yield
       /\ UNCHANGED <<brokerVars, portfolio, ctx, last, ret>>

NextSlice == SliceNext

SpecSlice == InitSlice /\ [][NextSlice]_vars

InWindow(ev) ==
    /\ gen.start_ms = None \/ ev.event_time_ms >= gen.start_ms
    /\ gen.end_ms = None \/ ev.event_time_ms < gen.end_ms
\* The places of the input whose event is at or after end_ms.
AtOrAfterEnd ==
    {i \in 1..Len(gen.events) :
        gen.end_ms # None /\ gen.events[i].event_time_ms >= gen.end_ms}
FirstAtOrAfterEnd == CHOOSE i \in AtOrAfterEnd : \A k \in AtOrAfterEnd : i <= k
IsPrefix(a, b) == Len(a) <= Len(b) /\ a = SubSeq(b, 1, Len(a))
\* What is yielded of a time-ordered input: the events of the window, in
\* their order, all of them once the generator is exhausted.
SliceYields ==
    Ordered(gen.events) =>
       /\ IsPrefix(trace, SelectSeq(gen.events, InWindow))
       /\ gen.phase = "done" => trace = SelectSeq(gen.events, InWindow)
       /\ (gen.phase = "done" /\ gen.start_ms = None /\ gen.end_ms = None)
             => trace = gen.events
\* Iteration stops at the first event at or after end_ms: that event is
\* the last one taken from the input, and nothing from it on is yielded.
SliceStops ==
    (Ordered(gen.events) /\ AtOrAfterEnd # {}) =>
       /\ gen.pos <= FirstAtOrAfterEnd
       /\ gen.phase = "done" => gen.pos = FirstAtOrAfterEnd
       /\ \A i \in 1..Len(trace) : trace[i].index < FirstAtOrAfterEnd

\* What holds of slice_event_stream for every window: the yields of C18,
\* and the stop of C18 when start_ms is absent or not above end_ms.
SliceWindow ==
    /\ SliceYields
    /\ (gen.start_ms = None \/ gen.end_ms = None \/ gen.start_ms <= gen.end_ms)
          => SliceStops

\* C18: for a time-ordered input, slice_event_stream(events, start_ms,
\* end_ms) yields exactly the events with start_ms <= event_time_ms <
\* end_ms in their original order, every event when neither bound is
\* given, and iteration stops at the first event with event_time_ms >=
\* end_ms: no event after it is taken from the input or yielded.
C18_Slice == SliceYields /\ SliceStops

\* An exhausted slice of a time-ordered input that skipped an event below
\* start_ms, yielded one and stopped at an event at end_ms or later.
SliceWindowWitness ==
    /\ gen.phase = "done"
    /\ Ordered(gen.events)
    /\ gen.start_ms # None /\ gen.end_ms # None /\ gen.start_ms < gen.end_ms
    /\ Len(trace) = 1
    /\ trace[1].index = 2
    /\ AtOrAfterEnd # {}

\* ------------------------------------------------------------ L2Book alone
\* An L2Book created empty and driven by its three mutators, in any
\* order and without end: level updates with quantities below, at and
\* above zero, depth updates that name a price twice or not at all, and
\* takers of either side with and without a limit.
BookSides == {"bid", "ask"}
BookPrices == 1..2
UpdateQtys == -1..2
DepthUpdates ==
    {<<>>,
     <<<<1, 0>>>>,
     <<<<1, 2>>, <<1, 0>>>>,
     <<<<1, -1>>, <<2, 1>>>>,
     <<<<2, 1>>, <<2, 2>>>>,
     <<<<2, 0>>, <<2, 1>>>>}
BookTakeQtys == 1..3

InitBook ==
    /\ NoEngine
    /\ gen = NoCall
    /\ trace = <<>>

SideMap(b, side) == IF side = "bid" THEN b.bids ELSE b.asks

\* book.apply_level(side, price, quantity)
ApplyLevel(side, price, quantity) ==
    /\ book' = apply_level(book, side, price, quantity)
    /\ last' = [name |-> "apply_level", side |-> side, price |-> price,
                quantity |-> quantity,
                before |-> DictGet(SideMap(book, side), price, 0)]
    /\ ret' = NoCall
    /\ UNCHANGED <<cfg, maker_orders, pending_submits, pending_cancels, seq,
                   canceled, fills, portfolio, now, ctx, gen, trace>>

\* book.apply_depth_update(bid_updates, ask_updates)
ApplyDepthUpdate(bid_updates, ask_updates) ==
    /\ book' = apply_depth_update(book, bid_updates, ask_updates)
    /\ last' = [name |-> "apply_depth_update", bid_updates |-> bid_updates,
                ask_updates |-> ask_updates]
    /\ ret' = NoCall
    /\ UNCHANGED <<cfg, maker_orders, pending_submits, pending_cancels, seq,
                   canceled, fills, portfolio, now, ctx, gen, trace>>

\* consume_taker_fill(book, side, quantity, limit_price=limit_price)
ConsumeTakerFill(side, quantity, limit_price) ==
    LET r == consume_taker_fill(book, side, quantity, limit_price)
    IN /\ book' = r.book
       /\ ret' = [avg_px |-> r.avg_px, filled_qty |-> r.filled_qty]
       /\ last' = [name |-> "consume_taker_fill", side |-> side,
                   quantity |-> quantity, price |-> limit_price]
       /\ UNCHANGED <<cfg, maker_orders, pending_submits, pending_cancels, seq,
                      canceled, fills, portfolio, now, ctx, gen, trace>>

NextBook ==
    \/ \E sd \in BookSides, p \in BookPrices, q \in UpdateQtys : ApplyLevel(sd, p, q)
    \/ \E b \in DepthUpdates, a \in DepthUpdates : ApplyDepthUpdate(b, a)
    \/ \E s \in Sides, q \in BookTakeQtys, l \in BookPrices \cup {None} :
          ConsumeTakerFill(s, q, l)

SpecBook == InitBook /\ [][NextBook]_vars

\* Every level stored in bids and asks has a quantity above zero.
LevelsPositive ==
    /\ \A p \in DOMAIN book.bids : book.bids[p] > 0
    /\ \A p \in DOMAIN book.asks : book.asks[p] > 0
\* The quantity the last update of a list gives for a price, as a
\* sequence of one quantity, <<>> if the list does not name the price.
RECURSIVE LastUpdate(_, _)
LastUpdate(updates, price) ==
    IF updates = <<>> THEN <<>>
    ELSE IF updates[Len(updates)][1] = price THEN <<updates[Len(updates)][2]>>
    ELSE LastUpdate(SubSeq(updates, 1, Len(updates) - 1), price)
\* The side map m after the list of updates: for each price the last
\* update decides, removing the level at a quantity <= 0.
Updated(m, m2, updates) ==
    \A p \in BookPrices :
       LET q == LastUpdate(updates, p)
       IN IF q = <<>> THEN DictGet(m2, p, None) = DictGet(m, p, None)
          ELSE IF q[1] <= 0 THEN p \notin DOMAIN m2
          ELSE p \in DOMAIN m2 /\ m2[p] = q[1]
\* apply_level with a quantity <= 0 leaves the side without the level and
\* everything else as it was, whether the level was there or not; with a
\* quantity above zero it sets the level.
LevelUpdated ==
    last'.name = "apply_level" =>
       LET m == SideMap(book, last'.side)
           other == IF last'.side = "bid" THEN "ask" ELSE "bid"
       IN /\ SideMap(book', last'.side) =
                IF last'.quantity <= 0 THEN DictPop(m, last'.price)
                ELSE DictSet(m, last'.price, last'.quantity)
          /\ (last'.quantity <= 0 /\ last'.price \notin DOMAIN m)
                => UNCHANGED book
          /\ SideMap(book', other) = SideMap(book, other)
DepthUpdated ==
    last'.name = "apply_depth_update" =>
       /\ Updated(book.bids, book'.bids, last'.bid_updates)
       /\ Updated(book.asks, book'.asks, last'.ask_updates)

\* C19: starting from an empty L2Book, after any sequence of apply_level,
\* apply_depth_update and consume_taker_fill calls every level stored in
\* bids and asks has a quantity > 0; an update with a quantity <= 0
\* removes the level, is a no-op when the level is absent, and like every
\* other update leaves the book in a state the next call accepts.
C19_LevelsPositive ==
    /\ []LevelsPositive
    /\ [][LevelUpdated /\ DepthUpdated]_vars

\* A level that held a quantity was removed by an update with a negative
\* quantity, from a book with levels on both sides.
C19_Witness ==
    /\ last.name = "apply_level"
    /\ last.quantity < 0
    /\ last.before > 0
    /\ last.price \notin DOMAIN SideMap(book, last.side)
    /\ DOMAIN book.bids # {}
    /\ DOMAIN book.asks # {}

\* ---- SpecInvalid: orders the broker should refuse.  No latency or a
\* submit latency of 1; asks at 2 and bids at 1 that come and go; under one
\* id a market buy and a post-only bid that are valid, and orders of an
\* unknown type, limit orders without a price and orders of quantity 0 or
\* -1 of every routing (market, post-only, IOC, GTC crossing and resting).
\* ret holds how the last call ended.

UnknownTypeOrder(i) == [MarketOrder(i, "buy", 1) EXCEPT !.order_type = "stop"]
ValidOrders == {MarketOrder("a", "buy", 1), LimitOrder("a", "buy", 1, 1, "GTC", TRUE)}
InvalidOrders ==
    {UnknownTypeOrder("a")}
    \cup {LimitOrder("a", "buy", 1, None, tif, po) :
             tif \in {"GTC", "IOC"}, po \in BOOLEAN}
    \cup {MarketOrder("a", "buy", q) : q \in {0, -1}}
    \cup {LimitOrder("a", "buy", q, p, tif, po) :
             q \in {0, -1}, p \in 1..2, tif \in {"GTC", "IOC"}, po \in BOOLEAN}
InvalidUpdates == {AskOnly(<<2, q>>) : q \in 0..1} \cup {BidOnly(<<1, q>>) : q \in -1..1}

\* An order the broker is specified to refuse.
InvalidOrder(order) ==
    \/ order.order_type \notin {"market", "limit"}
    \/ order.order_type = "limit" /\ order.price = None
    \/ order.quantity <= 0

InitInvalid == \E sl \in 0..1 : Fresh(Config(sl, 0, <<1, 1>>), EmptyBook)

\* broker.submit(order, book, now_ms), with how it ends
SubmitOrRaise(order) ==
    \E r \in {submit_or_raise(World, order, now)} :
       /\ Becomes(r.w, now)
       /\ last' = [name |-> "submit", order |-> order]
       /\ ret' = [raised |-> r.raised]
       /\ UNCHANGED <<ctx, gen, trace>>

\* The caller advances its clock to t and calls broker.on_time(t).
OnTimeOrRaise(t) ==
    \E r \in {on_time_or_raise(World, t)} :
       /\ Becomes(r.w, t)
       /\ last' = [name |-> "on_time", now_ms |-> t]
       /\ ret' = [raised |-> r.raised]
       /\ UNCHANGED <<ctx, gen, trace>>

\* broker.on_trade(trade, now_ms), with how it ends
OnTradeOrRaise(trade) ==
    \E r \in {broker_on_trade_or_raise(World, trade, now)} :
       /\ Becomes(r.w, now)
       /\ last' = [name |-> "on_trade", trade |-> trade]
       /\ ret' = [raised |-> r.raised]
       /\ UNCHANGED <<ctx, gen, trace>>

\* broker.on_depth_update(update, book), with how it ends
OnDepthUpdateOrRaise(update) ==
    \E r \in {on_depth_update_or_raise(World, update)} :
       /\ Becomes(r.w, now)
       /\ last' = [name |-> "on_depth_update", update |-> update]
       /\ ret' = [raised |-> r.raised]
       /\ UNCHANGED <<ctx, gen, trace>>

NextInvalid ==
    \/ \E o \in ValidOrders \cup InvalidOrders : SubmitOrRaise(o)
    \/ \E t \in now..MaxTime : OnTimeOrRaise(t)
    \/ \E u \in InvalidUpdates : OnDepthUpdateOrRaise(u)

SpecInvalid == InitInvalid /\ [][NextInvalid]_vars

\* C21: submit() of an invalid order (unknown order type, limit order
\* without a price, or quantity <= 0) raises at the submit call itself,
\* whatever the order type, time in force, post_only flag and latency, and
\* leaves the broker unchanged: no pending entry, no resting order, no
\* Fill, no portfolio or book change.
C21_InvalidFailsAtSubmit ==
    [][(last'.name = "submit" /\ InvalidOrder(last'.order))
          => (ret'.raised /\ UNCHANGED brokerVars)]_vars

\* What the code does: with no submit latency an invalid order that is
\* routed to the taker, or has an unknown type or no price, raises at
\* submit and changes nothing.
InvalidRaisesUnqueued ==
    [][(/\ last'.name = "submit"
        /\ InvalidOrder(last'.order)
        /\ cfg.submit_latency_ms <= 0
        /\ \/ last'.order.order_type # "limit"
           \/ last'.order.price = None
           \/ last'.order.time_in_force = "IOC" /\ ~last'.order.post_only)
          => (ret'.raised /\ UNCHANGED brokerVars)]_vars
\* A depth update with a negative quantity at the price of the resting bid
\* raised after the book was written: the level is gone, the order is as it
\* was.
DepthUpdateRaised ==
    /\ last.name = "on_depth_update" /\ ret.raised
    /\ last.update = BidOnly(<<1, -1>>)
    /\ DOMAIN book.bids = {}
    /\ Len(maker_orders) = 1
    /\ maker_orders[1].mo.queue_ahead_qty = 1
\* A queued invalid order raises in the on_time call that finds it due.
InvalidQueued ==
    /\ last.name = "on_time"
    /\ ret.raised
    /\ pending_submits = {}
\* A limit order of quantity <= 0 rests as a maker order.
InvalidRests ==
    /\ last.name = "submit"
    /\ InvalidOrder(last.order)
    /\ ~ret.raised
    /\ maker_orders # <<>>
    /\ maker_orders[1].mo.quantity <= 0

\* ---- SpecConfig: the configurations a SimBroker is specified to refuse.
\* The state starts before the constructor is called, cfg holding the
\* arguments it is about to get: the defaults with one field out of range
\* (a negative fee fraction, a negative latency, a participation of 0 or
\* above 1, a negative queue parameter), or the defaults themselves.  The
\* book has an ask at 2 and a bid at 1.  ret holds how the last call ended.

DefaultConfig == Config(0, 0, <<1, 1>>)
BadConfigs ==
    {[DefaultConfig EXCEPT !.maker_fee_frac = -MakerFeeNum],
     [DefaultConfig EXCEPT !.taker_fee_frac = -TakerFeeNum],
     [DefaultConfig EXCEPT !.submit_latency_ms = -1],
     [DefaultConfig EXCEPT !.cancel_latency_ms = -1],
     [DefaultConfig EXCEPT !.maker_trade_participation = <<0, 1>>],
     [DefaultConfig EXCEPT !.maker_trade_participation = <<2, 1>>],
     [DefaultConfig EXCEPT !.maker_queue_ahead_factor = -1],
     [DefaultConfig EXCEPT !.maker_queue_ahead_extra_qty = -1]}
ConfigBook == [bids |-> DictSet(EmptyDict, 1, 1), asks |-> DictSet(EmptyDict, 2, 1)]
ConfigOrders == {MarketOrder("a", "buy", 1), LimitOrder("b", "buy", 1, 1, "GTC", TRUE)}
ConfigTrades == {[symbol |-> "BTCUSDT", price |-> 1, quantity |-> 2,
                  is_buyer_maker |-> TRUE]}

\* A configuration the constructor is specified to refuse.
ConfigError(c) ==
    \/ c.maker_fee_frac < 0
    \/ c.taker_fee_frac < 0
    \/ c.submit_latency_ms < 0
    \/ c.cancel_latency_ms < 0
    \/ ~(0 < c.maker_trade_participation[1]
         /\ c.maker_trade_participation[1] <= c.maker_trade_participation[2])
    \/ c.maker_queue_ahead_factor < 0
    \/ c.maker_queue_ahead_extra_qty < 0

\* SimBroker(**c): the generated __init__ of the dataclass stores its
\* arguments; there is no __post_init__, nothing is checked.
sim_broker_or_raise(c) ==
    Done([cfg |-> c, book |-> ConfigBook, maker_orders |-> <<>>,
          pending_submits |-> {}, pending_cancels |-> {}, seq |-> 0,
          canceled |-> {}, fills |-> <<>>, portfolio |-> NewPortfolio])

InitConfig == \E c \in BadConfigs \cup {DefaultConfig} : Fresh(c, ConfigBook)

Constructed == last # NoCall /\ (last.name = "SimBroker" => ~ret.raised)

\* broker = SimBroker(**cfg)
Construct ==
    /\ last = NoCall
    /\ \E r \in {sim_broker_or_raise(cfg)} :
          /\ Becomes(r.w, now)
          /\ ret' = [raised |-> r.raised]
    /\ last' = [name |-> "SimBroker"]
    /\ UNCHANGED <<ctx, gen, trace>>

NextConfig ==
    \/ Construct
    \/ \E o \in ConfigOrders : Constructed /\ SubmitOrRaise(o)
    \/ \E t \in now..MaxTime : Constructed /\ OnTimeOrRaise(t)
    \/ \E tr \in ConfigTrades : Constructed /\ OnTradeOrRaise(tr)

SpecConfig == InitConfig /\ [][NextConfig]_vars

\* C22: constructing a SimBroker with a negative fee fraction, a negative
\* submit or cancel latency, maker_trade_participation outside (0, 1] or a
\* negative queue parameter raises at construction, so a broker with such
\* a configuration never accepts an order, processes a trade or emits a
\* Fill.
C22_ConfigFailsAtConstruction ==
    ConfigError(cfg) =>
       /\ last.name = "SimBroker" => ret.raised
       /\ fills = <<>>
       /\ maker_orders = <<>>
       /\ pending_submits = {}

\* What the code does check, and where: a negative queue parameter raises
\* when an order is about to rest, a participation outside (0, 1] when a
\* trade reaches a resting order; until then, and for negative fees and
\* latencies always, the broker works.
ConfigCheckedLate ==
    /\ (last.name = "submit" /\ ret.raised)
          => (cfg.maker_queue_ahead_factor < 0 \/ cfg.maker_queue_ahead_extra_qty < 0)
    /\ (last.name = "on_trade" /\ ret.raised)
          => ~(0 < cfg.maker_trade_participation[1]
               /\ cfg.maker_trade_participation[1] <= cfg.maker_trade_participation[2])
    /\ last.name \in {"SimBroker", "on_time"} => ~ret.raised
\* A broker built with a negative taker fee has emitted a Fill with a
\* negative fee, and its fees_paid_usdt is below zero.
NegativeFeeFill ==
    /\ cfg.taker_fee_frac < 0
    /\ fills # <<>>
    /\ fills[1].fee_usdt < 0
    /\ portfolio.fees_paid_usdt < 0

\* ---- SpecCross: the book between depth updates.  Depth updates set any
\* level of prices 1..2 to 0 or 2, one level at a time, so that the book
\* can be left uncrossed, locked or crossed; orders of every routing on
\* both sides, market orders of quantity 1 (part of a level) and limit
\* orders of quantity 3 (more than a level), with no latency or a latency
\* of 1, one order in flight at a time; the clock goes up to 1; cancels;
\* trades at 2; the run goes on until its first fill and any number of
\* calls after it that do not fill.  trace holds
\* whether a depth update has ever left the book crossed.

CrossUpdates == {AskOnly(<<p, q>>) : p \in BookPrices, q \in {0, 2}}
                \cup {BidOnly(<<p, q>>) : p \in BookPrices, q \in {0, 2}}
CrossOrders ==
    {MarketOrder("a", s, 1) : s \in Sides}
    \cup {LimitOrder("a", s, 3, 2, tif, po) :
             s \in Sides, tif \in {"GTC", "IOC"}, po \in BOOLEAN}
CrossTrades == {[symbol |-> "BTCUSDT", price |-> 2, quantity |-> 1,
                 is_buyer_maker |-> m] : m \in BOOLEAN}

Crossed(b) == best_bid(b) # None /\ best_ask(b) # None /\ best_bid(b) > best_ask(b)

InitCross ==
    \E sl \in 0..1 :
       /\ Start(Config(sl, 0, <<1, 1>>), EmptyBook, <<>>)

\* broker.on_depth_update(update, book), fed by the market data
FeedDepth(update) ==
    \E w \in {on_depth_update(World, update)} :
       /\ Becomes(w, now)
       /\ trace' = IF trace = <<>> /\ ~Crossed(w.book) THEN <<>> ELSE <<"crossed">>
       /\ last' = [name |-> "on_depth_update"]
       /\ ret' = [raised |-> FALSE]
       /\ UNCHANGED <<ctx, gen>>

\* broker.cancel(order_id, now_ms=now)
CancelNow(order_id) ==
    /\ Becomes(cancel(World, order_id, now), now)
    /\ last' = [name |-> "cancel"]
    /\ ret' = [raised |-> FALSE]
    /\ UNCHANGED <<ctx, gen, trace>>

NextCross ==
    \/ \E u \in CrossUpdates : FeedDepth(u)
    \/ \E o \in CrossOrders :
          SubmitOrRaise(o) /\ Len(fills') <= 1 /\ Cardinality(pending_submits') <= 1
    \/ \E t \in now..1 : OnTimeOrRaise(t) /\ Len(fills') <= 1
    \/ \E tr \in CrossTrades : OnTradeOrRaise(tr) /\ Len(fills') <= 1
    \/ CancelNow("a")

SpecCross == InitCross /\ [][NextCross]_vars

NeverFedCrossed == trace = <<>>
\* Side map m2 has no level that m lacks and no quantity above m's.
OnlyTaken(m, m2) ==
    \A p \in DOMAIN m2 : p \in DOMAIN m /\ m2[p] <= m[p]
\* A call of the broker other than the feed of a depth update.
IsBrokerCall == last'.name \in {"submit", "on_time", "on_trade", "cancel"}

\* C23: if no depth update fed to the book has left it crossed, then
\* best_bid <= best_ask whenever both exist, in every reachable state; no
\* broker operation (routing, taker fill, opening a maker, maker fill,
\* cancel, on_time) adds a level to the book or raises a quantity in it,
\* so none makes best_bid exceed best_ask; and on whatever book, crossed
\* ones included, the queries and the routing of a valid order complete
\* without raising.
C23_NotCrossed ==
    /\ [](NeverFedCrossed => ~Crossed(book))
    /\ [][IsBrokerCall =>
            /\ OnlyTaken(book.bids, book'.bids)
            /\ OnlyTaken(book.asks, book'.asks)
            /\ Crossed(book') => Crossed(book)
            /\ ~ret'.raised]_vars

\* On a book no update has crossed, with both sides present, a limit order
\* was partly filled as a taker and its remainder rests.
C23_Witness ==
    /\ NeverFedCrossed
    /\ last.name \in {"submit", "on_time"}
    /\ fills # <<>>
    /\ maker_orders # <<>>
    /\ best_bid(book) # None
    /\ best_ask(book) # None
\* An order was filled from a book that a depth update had left crossed
\* and that still is.
CrossedRouted ==
    /\ ~NeverFedCrossed
    /\ Crossed(book)
    /\ last.name = "submit"
    /\ fills # <<>>
    /\ ~ret.raised

\* ---- SpecOrder: submits in flight.  A broker with a submit latency of 1
\* over three ask levels of quantity 1; market buys of quantity 1, each id
\* submitted once, stamped by the caller with any time of 0..MaxTime (submit
\* takes now_ms from its caller, so a later submit can be due earlier);
\* on_time at any time from the clock on.  trace lists the ids submitted.

OrderIds == {"a", "b", "c"}
OrderBook == [bids |-> EmptyDict, asks |-> [p \in Prices |-> 1]]

InitOrder == Fresh(Config(1, 0, <<1, 1>>), OrderBook)

\* broker.submit(order, book, now_ms=t)
SubmitAt(order, t) ==
    /\ \A k \in 1..Len(trace) : trace[k] # order.id
    /\ Becomes(submit(World, order, t), now)
    /\ trace' = Append(trace, order.id)
    /\ last' = [name |-> "submit", order |-> order, now_ms |-> t]
    /\ ret' = NoCall
    /\ UNCHANGED <<ctx, gen>>

\* The caller advances its clock to t and calls broker.on_time(t).
OnTimeAt(t) ==
    /\ Becomes(on_time(World, t), t)
    /\ last' = [name |-> "on_time", now_ms |-> t]
    /\ ret' = NoCall
    /\ UNCHANGED <<ctx, gen, trace>>

NextOrder ==
    \/ \E i \in OrderIds, t \in 0..MaxTime : SubmitAt(MarketOrder(i, "buy", 1), t)
    \/ \E t \in now..MaxTime : OnTimeAt(t)

SpecOrder == InitOrder /\ [][NextOrder]_vars

\* Pending submit e comes before f: earlier due, or same due and pushed first.
Before(e, f) == e.due < f.due \/ (e.due = f.due /\ e.seq < f.seq)
\* Where the fill of order id x is in the fill list fs (0 when it has none).
FillIndex(fs, x) ==
    IF \E k \in 1..Len(fs) : fs[k].order_id = x
    THEN CHOOSE k \in 1..Len(fs) : fs[k].order_id = x
    ELSE 0

\* C24: an on_time(t) call activates every pending submit due by t, in
\* increasing (due, seq) order: of two of them, the one with the earlier
\* due time, or with the same due time and submitted first, is filled
\* first, at t, and from the better price, the later one finding the book
\* as the earlier left it.
C24_ActivationOrder ==
    [][last'.name = "on_time" =>
         LET due == {e \in pending_submits : e.due <= last'.now_ms}
         IN /\ pending_submits' = pending_submits \ due
            /\ Len(fills') = Len(fills) + Cardinality(due)
            /\ \A e \in due :
                  /\ FillIndex(fills', e.order.id) > Len(fills)
                  /\ fills'[FillIndex(fills', e.order.id)].event_time_ms = last'.now_ms
            /\ \A e, f \in due :
                  Before(e, f) =>
                     /\ FillIndex(fills', e.order.id) < FillIndex(fills', f.order.id)
                     /\ fills'[FillIndex(fills', e.order.id)].price
                           < fills'[FillIndex(fills', f.order.id)].price]_vars

\* One on_time call has activated two submits of which the one submitted
\* last was due first, and filled first at the best ask.
C24_Witness ==
    /\ last.name = "on_time"
    /\ Len(fills) >= 2
    /\ fills[1].event_time_ms = fills[2].event_time_ms
    /\ trace[1] = fills[2].order_id
    /\ trace[2] = fills[1].order_id
    /\ fills[1].price = 1 * PxScale
\* One on_time call has activated two submits due at the same time, in the
\* order of their submission.
SameDueInOrder ==
    /\ last.name = "on_time"
    /\ Len(fills) >= 2
    /\ fills[1].event_time_ms = 1
    /\ fills[2].event_time_ms = 1
    /\ trace[1] = fills[1].order_id

\* ---- SpecFlip: fills large enough to reverse a position.  Quantities in
\* the unit of SpecPortfolio (DustQty units are dust), of 3, 6 and 9 units,
\* so that a fill can close a position, reverse it or leave a residual.

FlipQtys == {3, 6, 9}

NextFlip ==
    \E s \in Sides, q \in FlipQtys, p \in FillPrices, f \in FillFees :
       ApplyFill("BTCUSDT", s, q, p, f)

SpecFlip == InitPortfolio /\ [][NextFlip]_vars

Sign(q) == IF q > 0 THEN 1 ELSE IF q < 0 THEN -1 ELSE 0

\* C25: when apply_fill reverses the sign of the position, realized PnL
\* changes by sign(old qty) * |old qty| * (fill price - old avg_price)
\* minus the fee (the whole old position is closed, none of the residual),
\* and the position becomes the residual quantity at the fill price.
C25_Flip ==
    [][LET c == last'
           old == PositionOf(portfolio, c.symbol)
           new == PositionOf(portfolio', c.symbol)
       IN (c.name = "apply_fill" /\ Sign(old.qty) * Sign(new.qty) = -1) =>
             /\ portfolio'.realized_pnl_usdt - portfolio.realized_pnl_usdt
                   = Sign(old.qty) * Abs(old.qty) * (c.price - old.avg_price) * FeeDen
                     - c.fee_usdt
             /\ new.qty = old.qty + Signed(c.side, c.qty)
             /\ new.avg_price = c.price
             /\ portfolio'.fees_paid_usdt = portfolio.fees_paid_usdt + c.fee_usdt]_vars

\* A long of 3 bought at 1 was sold 9 at 2: a short of 6 entered at 2, the
\* gain of 3 realized.
C25_Witness ==
    /\ last.name = "apply_fill"
    /\ last.before = 3
    /\ last.side = "sell"
    /\ last.qty = 9
    /\ last.price = 2 * PxScale
    /\ PositionOf(portfolio, "BTCUSDT") = [qty |-> -6, avg_price |-> 2 * PxScale]
    /\ portfolio.realized_pnl_usdt = 3 * PxScale * FeeDen

\* ---- reducing, opening and increasing a position (SpecPortfolio)

\* C26: a fill that reduces a position without closing or flipping it
\* realizes sign(qty) * |fill qty| * (price - avg_price), less the fee, and
\* leaves avg_price unchanged; a fill that opens or increases a position
\* realizes nothing, only the fee being charged, and sets avg_price so that
\* |new qty| * new avg_price = |old qty| * old avg_price + |fill qty| * price
\* (whenever that average is a number of the scale).
C26_ReduceIncrease ==
    [][LET c == last'
           old == PositionOf(portfolio, c.symbol)
           new == PositionOf(portfolio', c.symbol)
           gain == portfolio'.realized_pnl_usdt - portfolio.realized_pnl_usdt
           notional == Abs(old.qty) * old.avg_price + c.qty * c.price
       IN c.name = "apply_fill" =>
             /\ (Sign(old.qty) * Sign(new.qty) = 1 /\ Abs(new.qty) < Abs(old.qty)) =>
                   /\ gain = Sign(old.qty) * c.qty * (c.price - old.avg_price) * FeeDen
                             - c.fee_usdt
                   /\ new.avg_price = old.avg_price
                   /\ new.qty = old.qty + Signed(c.side, c.qty)
             /\ (new.qty # 0 /\ (old.qty = 0 \/ (Sign(old.qty) * Sign(new.qty) = 1
                                                 /\ Abs(new.qty) > Abs(old.qty)))) =>
                   /\ gain = -c.fee_usdt
                   /\ new.qty = old.qty + Signed(c.side, c.qty)
                   /\ notional % Abs(new.qty) = 0 =>
                         Abs(new.qty) * new.avg_price = notional]_vars

\* A long of 3 bought at 1 was raised by 3 bought at 2: 6 at 1.5, and
\* nothing realized but the fees.
C26_Witness ==
    /\ last.name = "apply_fill"
    /\ last.before = 3
    /\ last.side = "buy"
    /\ last.qty = 3
    /\ last.price = 2 * PxScale
    /\ PositionOf(portfolio, "BTCUSDT") = [qty |-> 6, avg_price |-> (3 * PxScale) \div 2]
    /\ portfolio.realized_pnl_usdt = -portfolio.fees_paid_usdt
\* A long of 4 bought at 1 was reduced by 1 sold at 2: 3 left at 1, the
\* gain on 1 realized.
ReducedAtGain ==
    /\ last.name = "apply_fill"
    /\ last.before = 4
    /\ last.side = "sell"
    /\ last.qty = 1
    /\ last.price = 2 * PxScale
    /\ PositionOf(portfolio, "BTCUSDT") = [qty |-> 3, avg_price |-> PxScale]
    /\ portfolio.realized_pnl_usdt + portfolio.fees_paid_usdt = PxScale * FeeDen

\* ---- apply_funding (SpecPortfolio)

\* C27: apply_funding(symbol, mark_price, funding_rate) adds exactly
\* -(qty * mark_price * funding_rate) to realized_pnl_usdt and returns that
\* amount, so that with a positive rate a long pays and a short receives;
\* it leaves every position (that symbol's qty and avg_price, and the other
\* symbols') and fees_paid_usdt unchanged; with no position in the symbol,
\* or a flat one, it returns 0 and changes nothing.
C27_ApplyFunding ==
    [][LET c == last'
           flat == c.symbol \notin DOMAIN portfolio.positions
                   \/ portfolio.positions[c.symbol].qty = 0
           qty == PositionOf(portfolio, c.symbol).qty
       IN c.name = "apply_funding" =>
             /\ ret'.pnl = -(qty * c.mark_price * c.funding_rate)
             /\ portfolio'.realized_pnl_usdt = portfolio.realized_pnl_usdt + ret'.pnl
             /\ portfolio'.positions = portfolio.positions
             /\ portfolio'.fees_paid_usdt = portfolio.fees_paid_usdt
             /\ (c.funding_rate > 0 /\ qty > 0) => ret'.pnl < 0
             /\ (c.funding_rate > 0 /\ qty < 0) => ret'.pnl > 0
             /\ flat => (ret'.pnl = 0 /\ portfolio' = portfolio)]_vars

\* Funding at a positive rate was applied to a long of one symbol while the
\* other symbol holds a short: the long paid.
C27_Witness ==
    /\ last.name = "apply_funding"
    /\ last.symbol = "BTCUSDT"
    /\ last.funding_rate > 0
    /\ PositionOf(portfolio, "BTCUSDT").qty > 0
    /\ PositionOf(portfolio, "ETHUSDT").qty < 0
    /\ ret.pnl = -(PositionOf(portfolio, "BTCUSDT").qty * PxScale)
    /\ portfolio.realized_pnl_usdt = ret.pnl
\* Funding was applied to a symbol whose position had been closed: 0.
FundingOnFlat ==
    /\ last.name = "apply_funding"
    /\ last.symbol \in DOMAIN portfolio.positions
    /\ portfolio.positions[last.symbol].qty = 0
    /\ ret.pnl = 0

\* ---- the funding gate (SpecFunding)

\* The last funding time recorded for a symbol in context c (-1 when none).
LastFunding(c, symbol) == DictGet(c.last_funding_applied_ms, symbol, -1)

\* C28: for a MarkPrice event the funding gate passes (apply_funding is
\* called) iff next_funding_time_ms > 0, event_time_ms >= next_funding_time_ms
\* and next_funding_time_ms > the last funding time recorded for the
\* symbol; the recorded time becomes next_funding_time_ms exactly when the
\* gate passes and is otherwise unchanged, so that per symbol it is strictly
\* increasing; the record of every other symbol is unchanged, and no other
\* step touches the records.
C28_FundingGate ==
    [][LET ev == last'.event
           mark == IsRunEvent /\ ev.kind = "mark"
           passes == /\ mark
                     /\ ev.next_funding_time_ms > 0
                     /\ ev.event_time_ms >= ev.next_funding_time_ms
                     /\ ev.next_funding_time_ms > LastFunding(ctx, ev.symbol)
       IN /\ Funded <=> passes
          /\ passes =>
                /\ ctx'.last_funding_applied_ms =
                      DictSet(ctx.last_funding_applied_ms, ev.symbol,
                              ev.next_funding_time_ms)
                /\ LastFunding(ctx', ev.symbol) > LastFunding(ctx, ev.symbol)
                /\ \A s \in Symbols \ {ev.symbol} :
                      LastFunding(ctx', s) = LastFunding(ctx, s)
          /\ ~passes => ctx'.last_funding_applied_ms = ctx.last_funding_applied_ms]_vars

\* The gate has passed a second, later funding time of a symbol, the other
\* symbol's record staying where its own event had put it.
C28_Witness ==
    /\ last.name = "run_event" /\ last.event.kind = "mark"
    /\ last.event.symbol = "BTCUSDT"
    /\ last.event.next_funding_time_ms = 2
    /\ FundingCalls(trace.calls) # {}
    /\ <<"BTCUSDT", 1>> \in trace.funded
    /\ LastFunding(ctx, "BTCUSDT") = 2
    /\ LastFunding(ctx, "ETHUSDT") = 1
\* A MarkPrice event whose funding time is behind the recorded one did not
\* pass the gate.
StaleFundingTime ==
    /\ last.name = "run_event" /\ last.event.kind = "mark"
    /\ last.event.symbol = "BTCUSDT"
    /\ last.event.next_funding_time_ms = 1
    /\ LastFunding(ctx, "BTCUSDT") = 2
    /\ FundingCalls(trace.calls) = {}

\* ---- SpecRun: a whole run(), from before on_start to after on_end, on an
\* empty book.  Ticks disabled (interval 0) or every 1 or 2 ms, a submit
\* latency of 1; in time order, depth events that restore the ask at 2,
\* depth events of another symbol with an ask at 1, and tickers, open
\* interest and liquidations; a strategy that buys at market in on_start,
\* on_tick, the on_event of depth events and on_end.

RunIntervals == 0..2
RunMoves == {NoMove, SubmitMove(MarketOrder("a", "buy", 1))}
OtherSymbolDepth ==
    [symbol |-> "ETHUSDT", bid_updates |-> <<>>, ask_updates |-> <<<<2, 0>>, <<1, 1>>>>]
RunEvents(t) == {DepthEvent(t, AskOnly(<<2, 2>>)), DepthEvent(t, OtherSymbolDepth)}
\* The events on which the strategy does nothing.
AuxEvents(t) == {TickerEvent(t), OpenInterestEvent(t), LiquidationEvent(t)}

InitRun ==
    \E I \in RunIntervals :
       /\ cfg = Config(1, 0, <<1, 1>>)
       /\ book = EmptyBook
       /\ maker_orders = <<>>
       /\ pending_submits = {}
       /\ pending_cancels = {}
       /\ seq = 0
       /\ canceled = {}
       /\ fills = <<>>
       /\ portfolio = NewPortfolio
       /\ now = 0
       /\ ctx = [NewContext(I) EXCEPT !.phase = "new"]
       /\ trace = [calls |-> <<>>, events |-> 0, funded |-> {}, seen |-> {}]
       /\ gen = NoCall
       /\ last = NoCall
       /\ ret = NoCall

\* run() up to the loop: on_start.
RunStart(move) ==
    /\ ctx.phase = "new"
    /\ \E r \in {run_start(Engine, move)} :
          /\ Becomes(r.w, r.now_ms)
          /\ ctx' = r.ctx
          /\ trace' = [trace EXCEPT !.calls = r.calls]
    /\ last' = [name |-> "run_start", move |-> move]
    /\ UNCHANGED <<ret, gen>>

NextRun ==
    \/ \E move \in RunMoves : RunStart(move)
    \/ \E t \in now..MaxTime : \E ev \in RunEvents(t), move \in RunMoves :
          \E tick_moves \in [1..ticks_due(ctx, t) -> RunMoves] :
             RunEvent(ev, tick_moves, move)
    \/ \E t \in now..MaxTime : \E ev \in AuxEvents(t) :
          \E tick_moves \in [1..ticks_due(ctx, t) -> RunMoves] :
             RunEvent(ev, tick_moves, NoMove)
    \/ \E move \in RunMoves, end_move \in RunMoves : RunEnd(move, end_move)

SpecRun == InitRun /\ [][NextRun]_vars

\* The least multiple of I greater than t.
NextGridTime(I, t) == (t \div I + 1) * I

\* C29: on_start is called once, before any tick or event; after the last
\* event, with ticks enabled and at least one event processed, exactly one
\* more tick fires, at the least grid multiple greater than the last event
\* time, broker.on_time first (so that what is due by then is processed)
\* and on_tick second; then on_end is called, once and last; with an empty
\* stream or ticks disabled there is no final tick and on_end still runs.
C29_StartAndEnd ==
    /\ [](ctx.phase = "new" => (last = NoCall /\ trace.events = 0 /\ trace.calls = <<>>))
    /\ [][/\ (\E i \in 1..Len(trace'.calls) : trace'.calls[i].call = "on_start")
                <=> (ctx.phase = "new" /\ ctx'.phase = "running")
          /\ ctx.phase = "new" => CallNames(trace'.calls) = <<"on_start">>
          /\ ctx.phase = "running" => ctx'.phase \in {"running", "ended"}
          /\ ctx.phase = "ended" => FALSE
          /\ (\E i \in 1..Len(trace'.calls) : trace'.calls[i].call = "on_end")
                <=> (ctx.phase = "running" /\ ctx'.phase = "ended")]_vars
    /\ [][(ctx.phase = "running" /\ ctx'.phase = "ended") =>
            LET end == trace'.calls[Len(trace'.calls)]
            IN /\ IF ctx.tick_interval_ms > 0 /\ trace.events > 0
                  THEN LET T == NextGridTime(ctx.tick_interval_ms, now)
                       IN /\ trace'.calls[1] = [call |-> "on_time", now_ms |-> T]
                          /\ trace'.calls[2] = [call |-> "on_tick", now_ms |-> T]
                          /\ CallNames(trace'.calls) = <<"on_time", "on_tick", "on_end">>
                          /\ now' = T
                          /\ \A e \in pending_submits :
                                e.due <= T => e \notin end.pending \cup pending_submits'
                          /\ Len(end.fills) >= Len(fills)
                          /\ \A k \in Len(fills) + 1..Len(end.fills) :
                                end.fills[k].event_time_ms = T
                  ELSE /\ CallNames(trace'.calls) = <<"on_end">>
                       /\ now' = now
                       /\ end.pending = pending_submits
                       /\ end.fills = fills
               \* nothing follows on_end: what it submits is not activated
               /\ fills' = end.fills
               /\ IF last'.end_move.kind = "submit"
                  THEN \E p \in pending_submits' :
                          /\ p.order = last'.end_move.order
                          /\ p.due = now' + cfg.submit_latency_ms
                          /\ p \notin end.pending
                          /\ pending_submits' = end.pending \cup {p}
                  ELSE pending_submits' = end.pending]_vars

\* The depth of another symbol went to that symbol's book; a market buy
\* submitted on that event was later filled from the strategy's book, at 2.
OtherBookWritten ==
    /\ DictGet(ctx.books, "ETHUSDT", EmptyBook).asks = DictSet(EmptyDict, 1, 1)
    /\ book.asks = DictSet(EmptyDict, 2, 1)
    /\ Len(fills) = 1 /\ fills[1].price = 2 * PxScale
\* A ticker, then open interest and a liquidation: each is kept under its
\* own name, the ticker still the one of time 0.
AuxEventsStored ==
    /\ DOMAIN ctx.ticker = {"BTCUSDT"} /\ ctx.ticker["BTCUSDT"].event_time_ms = 0
    /\ DOMAIN ctx.open_interest = {"BTCUSDT"}
    /\ ctx.open_interest["BTCUSDT"].event_time_ms = 1
    /\ DOMAIN ctx.liquidation = {"BTCUSDT"}
    /\ ctx.liquidation["BTCUSDT"].event_time_ms = 2
\* A run with ticks every 2 ms ended after an event at 1: the final tick at
\* 2 activated the buy submitted in on_event, then on_end ran and submitted
\* a buy, which is left pending.
C29_Witness ==
    /\ ctx.phase = "ended"
    /\ ctx.tick_interval_ms = 2
    /\ trace.events > 0
    /\ CallNames(trace.calls) = <<"on_time", "on_tick", "on_end">>
    /\ trace.calls[1].now_ms = 2
    /\ now = 2
    /\ fills # <<>>
    /\ fills[Len(fills)].event_time_ms = 2
    /\ last.end_move.kind = "submit"
    /\ trace.calls[3].pending = {}
    /\ \E p \in pending_submits : p.due = 3 /\ pending_submits = {p}
\* A run over an empty stream with ticks enabled ended with on_end alone.
EmptyRunEnded ==
    /\ ctx.phase = "ended"
    /\ ctx.tick_interval_ms > 0
    /\ trace.events = 0
    /\ CallNames(trace.calls) = <<"on_end">>
\* A run with ticks disabled ended after events with on_end alone.
NoTicksRunEnded ==
    /\ ctx.phase = "ended"
    /\ ctx.tick_interval_ms = 0
    /\ trace.events > 0
    /\ CallNames(trace.calls) = <<"on_end">>

\* ---- the simulated clock (SpecRun, whose events come in time order)

\* The times passed to broker.on_time in a list of calls, in order.
RECURSIVE ClockTimes(_)
ClockTimes(calls) ==
    IF calls = <<>> THEN <<>>
    ELSE IF Head(calls).call = "on_time"
         THEN <<Head(calls).now_ms>> \o ClockTimes(Tail(calls))
         ELSE ClockTimes(Tail(calls))

\* C30: over a stream whose event_time_ms is non-decreasing, the times
\* assigned to ctx.now_ms and passed to broker.on_time (ticks, events and
\* the final tick, in the order they happen) never decrease: on every step
\* of the run the first is at or after the clock the step found, each next
\* one at or after the one before, and the clock is left at the last.
C30_ClockMonotone ==
    [][LET ts == ClockTimes(trace'.calls)
       IN /\ \A k \in 1..Len(ts) : (IF k = 1 THEN now ELSE ts[k - 1]) <= ts[k]
          /\ now' = IF ts = <<>> THEN now ELSE ts[Len(ts)]
          /\ last'.name = "run_event" =>
                (ts # <<>> /\ ts[Len(ts)] = last'.event.event_time_ms)]_vars

\* After an event at 0, an event at 2 with ticks every 1 ms: the clock went
\* 1, 2 for the ticks and 2 for the event.
C30_Witness ==
    /\ last.name = "run_event"
    /\ last.event.event_time_ms = 2
    /\ ctx.tick_interval_ms = 1
    /\ trace.events = 2
    /\ ClockTimes(trace.calls) = <<1, 2, 2>>
    /\ now = 2

\* ---- SpecHeap: the book with its heaps, from empty.  Levels of prices
\* 1..2 set to 2 or removed, once or 1005 times over (so that a heap grows
\* past the rebuild threshold of 4 * levels + 1000), depth updates, taker
\* fills of 1 (part of a level) and 3 (more than a level), and the queries
\* best_bid, best_ask and mid_price, up to MaxBookCalls calls.  book holds the book with its heaps,
\* trace counts the calls.

MaxBookCalls == 4
HeapUpdates == {<<<<1, 2>>, <<1, 0>>>>, <<<<2, 2>>, <<1, 2>>>>}

InitHeap ==
    /\ cfg = Config(0, 0, <<1, 1>>)
    /\ book = EmptyHeapBook
    /\ maker_orders = <<>>
    /\ pending_submits = {}
    /\ pending_cancels = {}
    /\ seq = 0
    /\ canceled = {}
    /\ fills = <<>>
    /\ now = 0
    /\ portfolio = NewPortfolio
    /\ ctx = NoCall
    /\ gen = NoCall
    /\ trace = 0
    /\ last = NoCall
    /\ ret = NoCall

\* One more call on the book, which becomes b.
HeapBecomes(b) ==
    /\ trace < MaxBookCalls
    /\ trace' = trace + 1
    /\ book' = b
    /\ UNCHANGED <<cfg, maker_orders, pending_submits, pending_cancels, seq,
                   canceled, fills, portfolio, now, ctx, gen>>

\* book.apply_level(side, price, quantity), n times
HeapApplyLevel(side, price, quantity, n) ==
    /\ HeapBecomes(apply_level_heap_times(book, side, price, quantity, n))
    /\ last' = [name |-> "apply_level", side |-> side, price |-> price,
                quantity |-> quantity, times |-> n]
    /\ ret' = NoCall

\* book.apply_depth_update(bid_updates, ask_updates)
HeapApplyDepthUpdate(bid_updates, ask_updates) ==
    /\ HeapBecomes(apply_depth_update_heap(book, bid_updates, ask_updates))
    /\ last' = [name |-> "apply_depth_update"]
    /\ ret' = NoCall

\* consume_taker_fill(book, side, quantity)
HeapConsumeTakerFill(side, quantity) ==
    \E r \in {consume_taker_fill_heap(book, side, quantity, None)} :
       /\ HeapBecomes(r.book)
       /\ last' = [name |-> "consume_taker_fill", side |-> side, quantity |-> quantity]
       /\ ret' = [avg_px |-> r.avg_px, filled_qty |-> r.filled_qty]

\* book.best_bid()
HeapBestBid ==
    \E r \in {best_bid_heap(book)} :
       /\ HeapBecomes(r.book)
       /\ last' = [name |-> "best_bid",
                   rebuilt |-> maybe_rebuild_heaps(book) # book,
                   popped |-> heap_len(maybe_rebuild_heaps(book).bid_heap)
                              - heap_len(r.book.bid_heap)]
       /\ ret' = [price |-> r.price]

\* book.best_ask()
HeapBestAsk ==
    \E r \in {best_ask_heap(book)} :
       /\ HeapBecomes(r.book)
       /\ last' = [name |-> "best_ask",
                   rebuilt |-> maybe_rebuild_heaps(book) # book,
                   popped |-> heap_len(maybe_rebuild_heaps(book).ask_heap)
                              - heap_len(r.book.ask_heap)]
       /\ ret' = [price |-> r.price]

\* book.mid_price()
HeapMidPrice ==
    \E r \in {mid_price_heap(book)} :
       /\ HeapBecomes(r.book)
       /\ last' = [name |-> "mid_price",
                   rebuilt |-> maybe_rebuild_heaps(book) # book,
                   popped |-> heap_len(maybe_rebuild_heaps(book).bid_heap)
                              - heap_len(r.book.bid_heap)
                              + heap_len(maybe_rebuild_heaps(book).ask_heap)
                              - heap_len(r.book.ask_heap)]
       /\ ret' = [price |-> r.price]

NextHeap ==
    \/ \E sd \in BookSides, p \in BookPrices, q \in {0, 2}, n \in {1, 1005} :
          HeapApplyLevel(sd, p, q, n)
    \/ \E b \in HeapUpdates \cup {<<>>}, a \in HeapUpdates \cup {<<>>} :
          HeapApplyDepthUpdate(b, a)
    \/ \E s \in Sides, q \in {1, 3} : HeapConsumeTakerFill(s, q)
    \/ HeapBestBid
    \/ HeapBestAsk
    \/ HeapMidPrice

SpecHeap == InitHeap /\ [][NextHeap]_vars

MaxKey(m) == IF DOMAIN m = {} THEN None ELSE SetMax(DOMAIN m)
MinKey(m) == IF DOMAIN m = {} THEN None ELSE SetMin(DOMAIN m)

\* C31: from an empty book, after any interleaving of apply_level,
\* apply_depth_update, consume_taker_fill, best_bid and best_ask calls,
\* heap rebuilds included, best_bid() returns the greatest price stored in
\* bids and best_ask() the least stored in asks, None exactly when the side
\* is empty, and neither query changes bids or asks: in every reachable
\* state that is what a call would return, and on every call it is what
\* the call returned.
C31_BestOfHeap ==
    /\ [](/\ best_bid_heap(book).price = MaxKey(book.bids)
          /\ best_ask_heap(book).price = MinKey(book.asks)
          /\ best_bid_heap(book).price = best_bid(book)
          /\ best_ask_heap(book).price = best_ask(book))
    /\ [][/\ last'.name = "best_bid" =>
                /\ ret'.price = MaxKey(book.bids)
                /\ book'.bids = book.bids /\ book'.asks = book.asks
          /\ last'.name = "best_ask" =>
                /\ ret'.price = MinKey(book.asks)
                /\ book'.bids = book.bids /\ book'.asks = book.asks]_vars

\* best_bid popped stale entries of a removed level and returned the lower
\* level that is live.
C31_Witness ==
    /\ last.name = "best_bid"
    /\ last.popped > 0
    /\ ret.price = 1
    /\ DOMAIN book.bids = {1}
\* mid_price popped the stale entries of both heaps in one call and
\* returned the mid of the live levels, 1.5.
MidPricePopsBoth ==
    /\ last.name = "mid_price"
    /\ last.popped = 2
    /\ ret.price = (3 * PxScale) \div 2
    /\ heap_len(book.bid_heap) = 1 /\ heap_len(book.ask_heap) = 1
    /\ DOMAIN book.bids = {1} /\ DOMAIN book.asks = {2}
\* best_ask rebuilt its heap, grown past the threshold, and returned the
\* live level.
HeapRebuilt ==
    /\ last.name = "best_ask"
    /\ last.rebuilt
    /\ ret.price # None
    /\ heap_len(book.ask_heap) = Cardinality(DOMAIN book.asks)

\* ---- SpecOpen: opening a maker order.  Queue factor and extra quantity
\* (1, 0), (0, 1) or (2, 1), no latency or a latency of 1 (one order in
\* flight); depth updates that set or remove the levels at 1 and 2 on
\* either side; on both sides, market orders, IOC and GTC limit orders "a"
\* at 2 and post-only orders "b" at 1 and 2, of quantity 3; depth updates
\* come while no order rests or is in flight; the run goes on until its
\* first fill and any number of calls after it that do not fill.

OpenConfigs ==
    {[Config(sl, 0, <<1, 1>>) EXCEPT !.maker_queue_ahead_factor = fx[1],
                                     !.maker_queue_ahead_extra_qty = fx[2]] :
        sl \in 0..1, fx \in {<<1, 0>>, <<0, 1>>, <<2, 1>>}}
OpenOrders ==
    {MarketOrder("a", s, 1) : s \in Sides}
    \cup {LimitOrder("a", s, 3, 2, "IOC", FALSE) : s \in Sides}
    \cup {LimitOrder("a", s, 3, 2, "GTC", FALSE) : s \in Sides}
    \cup {LimitOrder("b", s, 3, p, "GTC", TRUE) : s \in Sides, p \in BookPrices}

InitOpen == \E c \in OpenConfigs : Fresh(c, EmptyBook)

NextOpen ==
    \/ \E u \in CrossUpdates :
          maker_orders = <<>> /\ pending_submits = {} /\ FeedDepth(u)
    \/ \E o \in OpenOrders :
          SubmitOrRaise(o) /\ Len(fills') <= 1 /\ Cardinality(pending_submits') <= 1
    \/ \E t \in now..1 : OnTimeOrRaise(t) /\ Len(fills') <= 1

SpecOpen == InitOpen /\ [][NextOpen]_vars

\* The quantity the fills appended by the step carry for order id i.
RECURSIVE FilledFor(_, _)
FilledFor(fs, i) ==
    IF fs = <<>> THEN 0
    ELSE (IF Head(fs).order_id = i THEN Head(fs).quantity ELSE 0) + FilledFor(Tail(fs), i)

\* The orders the step routes: the one submitted without latency, or the
\* pending ones an on_time finds due (at most one is in flight).
Routed ==
    IF last'.name = "submit"
    THEN IF cfg.submit_latency_ms > 0 THEN {} ELSE {last'.order}
    ELSE IF last'.name = "on_time"
    THEN {e.order : e \in {f \in pending_submits : f.due <= last'.now_ms}}
    ELSE {}

\* Order o, routed on the book b, is to rest (all of it or what its taker
\* fill left).
Rests(o, b, rem) ==
    /\ o.order_type = "limit"
    /\ IF o.post_only THEN ~limit_crosses(o, b)
       ELSE o.time_in_force # "IOC" /\ rem > 0

\* C32: a maker order that is opened (post-only, GTC that does not cross,
\* or the remainder of a GTC that does) starts with queue_ahead_qty = the
\* visible quantity on its own side at exactly its price at routing time
\* (0 with no such level) * maker_queue_ahead_factor +
\* maker_queue_ahead_extra_qty, with filled_qty 0, and is stored under the
\* order's id with the resting quantity; a routed order that is not to
\* rest opens nothing.
C32_OpenMaker ==
    [][\A o \in Routed :
          LET rem == o.quantity
                     - FilledFor(SubSeq(fills', Len(fills) + 1, Len(fills')), o.id)
              own == IF o.side = "buy" THEN book.bids ELSE book.asks
          IN IF Rests(o, book, rem)
             THEN /\ o.id \in MakerIds(maker_orders')
                  /\ LET mo == maker_orders'[MakerOf(maker_orders', o.id)].mo
                     IN /\ mo.queue_ahead_qty =
                              DictGet(own, o.price, 0) * cfg.maker_queue_ahead_factor
                              + cfg.maker_queue_ahead_extra_qty
                        /\ mo.filled_qty = 0
                        /\ mo.quantity = rem
                        /\ mo.price = o.price /\ mo.side = o.side
                        /\ mo.symbol = o.symbol
                  /\ \A i \in MakerIds(maker_orders') :
                        i # o.id =>
                           /\ i \in MakerIds(maker_orders)
                           /\ maker_orders'[MakerOf(maker_orders', i)]
                                 = maker_orders[MakerOf(maker_orders, i)]
             ELSE maker_orders' = maker_orders]_vars

\* The remainder of a GTC buy at 2 that took the ask at 2 rests behind the
\* bids at 2: queue ahead 2 * 2 + 1.
C32_Witness ==
    /\ last.name \in {"submit", "on_time"}
    /\ cfg.maker_queue_ahead_factor = 2
    /\ cfg.maker_queue_ahead_extra_qty = 1
    /\ fills # <<>>
    /\ fills[1].order_id = "a"
    /\ "a" \in MakerIds(maker_orders)
    /\ maker_orders[MakerOf(maker_orders, "a")].mo.quantity = 1
    /\ maker_orders[MakerOf(maker_orders, "a")].mo.queue_ahead_qty = 5
    /\ DictGet(book.bids, 2, 0) = 2
\* A post-only order rests at a price with no level on its side: the queue
\* ahead is the extra quantity alone.
OpenedAtNoLevel ==
    /\ last.name = "submit"
    /\ last.order.post_only
    /\ cfg.maker_queue_ahead_extra_qty = 1
    /\ cfg.maker_queue_ahead_factor = 2
    /\ best_bid(book) = 2
    /\ "b" \in MakerIds(maker_orders)
    /\ maker_orders[MakerOf(maker_orders, "b")].mo.side = "buy"
    /\ maker_orders[MakerOf(maker_orders, "b")].mo.price = 1
    /\ maker_orders[MakerOf(maker_orders, "b")].mo.queue_ahead_qty = 1

\* ---- SpecCancel: cancels of resting orders.  Post-only bids of 2 at 1
\* rest under two ids (submit latency 0 or 1), sells of 1 trade at 1, the
\* bid level at 1 comes and goes, and cancels are called with the clock
\* (cancel latency 0 or 1) or without a time.  trace is the set of ids
\* whose cancel has been applied with no order of that id routed since.

CancelIds == {"a", "b"}
CancelOrders == {LimitOrder(i, "buy", 2, 1, "GTC", TRUE) : i \in CancelIds}
CancelTrades == {[symbol |-> "BTCUSDT", price |-> 1, quantity |-> 1,
                  is_buyer_maker |-> TRUE]}
CancelUpdates == {BidOnly(<<1, q>>) : q \in 0..1}
CancelConfigs == {Config(sl, cl, <<1, 1>>) : sl \in 0..1, cl \in 0..1}

InitCancel ==
    /\ cfg \in CancelConfigs
    /\ book = EmptyBook
    /\ maker_orders = <<>>
    /\ pending_submits = {}
    /\ pending_cancels = {}
    /\ seq = 0
    /\ canceled = {}
    /\ fills = <<>>
    /\ now = 0
    /\ portfolio = NewPortfolio
    /\ ctx = NoCall
    /\ gen = NoCall
    /\ trace = {}
    /\ last = NoCall
    /\ ret = NoCall

\* The ids of which on_time(t) routes a pending submit: the first due
\* submit of a flagged id is discarded, every other due submit is routed.
RoutedIds(t) ==
    {x \in DueSubmitIds(t) :
        Cardinality(DueSubmits(x, t))
            > IF x \in canceled \cup DueCancelIds(t) THEN 1 ELSE 0}

\* broker.submit(order, book, now): routed at once without latency.
CancelSubmit(order) ==
    /\ Becomes(submit(World, order, now), now)
    /\ last' = [name |-> "submit", order |-> order]
    /\ trace' = IF cfg.submit_latency_ms > 0 THEN trace ELSE trace \ {order.id}
    /\ UNCHANGED <<ret, ctx, gen>>

\* broker.cancel(order_id, now_ms=now) or broker.cancel(order_id): applied
\* at the call unless it is queued.
CancelCall(order_id, now_ms) ==
    /\ Becomes(cancel(World, order_id, now_ms), now)
    /\ last' = [name |-> "cancel", order_id |-> order_id, now_ms |-> now_ms]
    /\ trace' = IF cfg.cancel_latency_ms > 0 /\ now_ms # None
                THEN trace ELSE trace \cup {order_id}
    /\ UNCHANGED <<ret, ctx, gen>>

\* broker.on_time(t): the due cancels are applied, then the due submits.
CancelOnTime(t) ==
    /\ Becomes(on_time(World, t), t)
    /\ last' = [name |-> "on_time", now_ms |-> t,
                due_cancels |-> DueCancelIds(t)]
    /\ trace' = (trace \cup DueCancelIds(t)) \ RoutedIds(t)
    /\ UNCHANGED <<ret, ctx, gen>>

\* broker.on_trade(trade, now)
CancelOnTrade(trade) ==
    /\ Becomes(broker_on_trade(World, trade, now), now)
    /\ last' = [name |-> "on_trade", trade |-> trade]
    /\ UNCHANGED <<ret, ctx, gen, trace>>

\* broker.on_depth_update(update, book)
CancelOnDepthUpdate(update) ==
    /\ Becomes(on_depth_update(World, update), now)
    /\ last' = [name |-> "on_depth_update", update |-> update]
    /\ UNCHANGED <<ret, ctx, gen, trace>>

NextCancel ==
    \/ \E o \in CancelOrders : CancelSubmit(o) /\ seq' <= 2
    \/ \E i \in CancelIds : CancelCall(i, now) /\ seq' <= 2
    \/ \E i \in CancelIds : CancelCall(i, None)
    \/ \E t \in now..2 : CancelOnTime(t)
    \/ \E tr \in CancelTrades : CancelOnTrade(tr) /\ Len(fills') <= 2
    \/ \E u \in CancelUpdates : CancelOnDepthUpdate(u)

SpecCancel == InitCancel /\ [][NextCancel]_vars

\* C33: once a cancel for an id has been applied (at the call when
\* cancel_latency_ms is 0 or no time is given, else by the first on_time(t)
\* with t >= request time + cancel_latency_ms) no order rests under the id
\* and no trade or depth update emits a Fill for it, until an order with
\* that id is routed again; a queued cancel leaves the resting orders as
\* they are until it is applied.
C33_Canceled ==
    /\ [](trace \cap MakerIds(maker_orders) = {})
    /\ [][/\ last'.name \in {"on_trade", "on_depth_update"}
             => NewFillIds \cap trace' = {}
          /\ (last'.name = "cancel" /\ last'.order_id \notin trace')
             => /\ maker_orders' = maker_orders
                /\ \E c \in pending_cancels' \ pending_cancels :
                      /\ c.order_id = last'.order_id
                      /\ c.due = now + cfg.cancel_latency_ms]_vars

\* A cancel queued at 0 is applied by on_time(1) to the order resting
\* under "a" that a trade had partly filled; the next trade fills nothing.
C33_Witness ==
    /\ last.name = "on_trade"
    /\ cfg.cancel_latency_ms = 1
    /\ "a" \in trace
    /\ Len(fills) = 1
    /\ fills[1].order_id = "a"
    /\ pending_cancels = {}
    /\ pending_submits = {}
    /\ seq >= 1
\* Until the cancel is applied the order can still be filled: a trade
\* fills "a" while its cancel is queued.
FilledBeforeCancelApplied ==
    /\ last.name = "on_trade"
    /\ \E c \in pending_cancels : c.order_id = "a"
    /\ fills # <<>>
    /\ fills[Len(fills)].order_id = "a"
    /\ "a" \notin trace
\* An order of a canceled id rests again: a second order had been
\* submitted under the id.
RestsAgain ==
    /\ last.name \in {"submit", "on_time"}
    /\ "a" \in canceled \/ cfg.submit_latency_ms > 0
    /\ "a" \in MakerIds(maker_orders)
    /\ \E c \in CancelIds : c \in trace

\* C40: every applied cancel flags its id, also when no order of the id
\* rests or pends; a queued cancel flags nothing until it is applied.  The
\* flag is cleared only by on_time, when it discards a due pending submit
\* of the id, one submit per flag: a flagged id with one due submit is not
\* routed, with two the second is.  submit never reads or clears the flag:
\* without submit latency the order of a flagged id is routed and rests,
\* with latency it is queued, to be discarded when due.
C40_CancelFlag ==
    [][/\ last'.name = "cancel" =>
            canceled' = IF cfg.cancel_latency_ms > 0 /\ last'.now_ms # None
                        THEN canceled ELSE canceled \cup {last'.order_id}
       /\ last'.name \in {"submit", "on_trade", "on_depth_update"} =>
            canceled' = canceled
       /\ last'.name = "submit" =>
            IF cfg.submit_latency_ms > 0
            THEN /\ maker_orders' = maker_orders
                 /\ \E e \in pending_submits' \ pending_submits :
                       e.order = last'.order /\ e.due = now + cfg.submit_latency_ms
            ELSE /\ last'.order.id \in MakerIds(maker_orders')
                 /\ pending_submits' = pending_submits
       /\ last'.name = "on_time" =>
            LET t == last'.now_ms
                flagged == canceled \cup DueCancelIds(t)
            IN /\ canceled' = flagged \ DueSubmitIds(t)
               /\ \A x \in DueSubmitIds(t) :
                     x \in MakerIds(maker_orders')
                        <=> (x \notin flagged \/ Cardinality(DueSubmits(x, t)) >= 2)]_vars

\* A cancel of an id that was never submitted, on a new broker: the id is
\* flagged.
C40_Witness ==
    /\ last.name = "cancel"
    /\ last.order_id = "a"
    /\ seq = 0
    /\ maker_orders = <<>>
    /\ pending_submits = {}
    /\ pending_cancels = {}
    /\ fills = <<>>
    /\ canceled = {"a"}
\* With submit latency an order is submitted under an id flagged before
\* the submission; it is discarded when due.
FlaggedThenSubmitted ==
    /\ last.name = "submit"
    /\ last.order.id = "a"
    /\ cfg.submit_latency_ms > 0
    /\ "a" \in canceled
    /\ seq = 1
    /\ \E e \in pending_submits : e.order.id = "a"
\* on_time found the submit of a flagged id due and discarded it: nothing
\* rests, the flag is gone.
FlagSpent ==
    /\ last.name = "on_time"
    /\ cfg.submit_latency_ms > 0
    /\ cfg.cancel_latency_ms = 0
    /\ seq = 1
    /\ pending_submits = {}
    /\ maker_orders = <<>>
    /\ canceled = {}
    /\ trace = {"a"}
\* Without submit latency the order of a flagged id is routed and rests;
\* the flag stays.
FlagNotConsulted ==
    /\ last.name = "submit"
    /\ cfg.submit_latency_ms = 0
    /\ last.order.id = "a"
    /\ "a" \in canceled
    /\ "a" \in MakerIds(maker_orders)

\* ------------------------------------------------------- L2Book.impact_vwap
\* Notionals and quantities are counted in units of 2^-21 (about 4.8e-7),
\* whose small multiples floats carry exactly; prices are whole.  A
\* shortfall below and above the tolerance can then be told apart.

\* eps_notional = 1e-6, the default: between 2 and 3 units, so that
\* remaining <= eps_notional is remaining <= 2 units
EpsNotional == 2

\* heapq.nsmallest(n, items) / heapq.nlargest(n, items) of a sorted list:
\* the first n entries, none for n <= 0.
nfirst(n, s) == SubSeq(s, 1, IF n < 0 THEN 0 ELSE IF n < Len(s) THEN n ELSE Len(s))

\* The levels impact_vwap walks: the asks by rising price for a buy, the
\* bids by falling price for a sell, the first max_levels of them unless
\* max_levels is 0.
vwap_levels(b, side, max_levels) ==
    LET m == IF side = "buy" THEN b.asks ELSE b.bids
        keys == IF side = "buy" THEN SortedAsc(DOMAIN m) ELSE SortedDesc(DOMAIN m)
        items == [i \in 1..Len(keys) |-> <<keys[i], m[keys[i]]>>]
    IN IF max_levels # 0 THEN nfirst(max_levels, items) ELSE items

\* The loop of impact_vwap over the levels.  total_qty is kept in units of
\* 1 / PxScale, which every price divides.
RECURSIVE vwap_walk(_, _, _, _, _)
vwap_walk(levels, remaining, total_qty, total_cost, eps_notional) ==
    IF levels = <<>> \/ remaining <= eps_notional
    THEN [remaining |-> remaining, total_qty |-> total_qty, total_cost |-> total_cost]
    ELSE LET price == Head(levels)[1]
             qty == Head(levels)[2]
             level_notional == price * qty
             take_notional == IF level_notional <= remaining
                              THEN level_notional ELSE remaining
             take_qty == (take_notional * PxScale) \div price
         IN IF qty <= 0 \/ level_notional <= 0
            THEN vwap_walk(Tail(levels), remaining, total_qty, total_cost, eps_notional)
            ELSE vwap_walk(Tail(levels), remaining - take_notional,
                           total_qty + take_qty, total_cost + take_qty * price,
                           eps_notional)

\* remaining > eps_notional or total_qty <= 0.0
vwap_short(w, eps_notional) == w.remaining > eps_notional \/ w.total_qty <= 0

\* L2Book.impact_vwap: the value returned, math.nan or total_cost /
\* total_qty (kept as the two sums), or the ValueError raised.
impact_vwap(b, side, target_notional, max_levels, eps_notional) ==
    IF target_notional <= 0 \/ side \notin {"buy", "sell"}
    THEN [raised |-> TRUE, nan |-> FALSE, total_cost |-> 0, total_qty |-> 0]
    ELSE LET w == vwap_walk(vwap_levels(b, side, max_levels), target_notional,
                            0, 0, eps_notional)
             m == IF side = "buy" THEN b.asks ELSE b.bids
             full == vwap_walk(vwap_levels(b, side, 0), target_notional,
                               0, 0, eps_notional)
             r == IF vwap_short(w, eps_notional) /\ max_levels # 0
                     /\ Cardinality(DOMAIN m) > max_levels
                  THEN full ELSE w
         IN IF vwap_short(r, eps_notional)
            THEN [raised |-> FALSE, nan |-> TRUE, total_cost |-> 0, total_qty |-> 0]
            ELSE [raised |-> FALSE, nan |-> FALSE,
                  total_cost |-> r.total_cost, total_qty |-> r.total_qty]

\* ---- SpecVwap: a book of up to three levels a side, quantities of 1 or 2
\* units, and impact_vwap queries of either side (and of no side) with
\* targets from below zero to above the whole depth, each with every kind
\* of max_levels: negative, 0 (no limit), below, at and above the depth.

VwapPrices == 1..3
VwapQtys == 0..2
VwapTargets == -1..13
VwapMaxLevels == {-1, 0, 1, 2, 3, 200}
VwapSides == {"buy", "sell", "hold"}

InitVwap ==
    /\ NoEngine
    /\ gen = NoCall
    /\ trace = <<>>

\* book.apply_level(side, price, quantity)
VwapApplyLevel(side, price, quantity) ==
    /\ book' = apply_level(book, side, price, quantity)
    /\ last' = [name |-> "apply_level"]
    /\ ret' = NoCall
    /\ UNCHANGED <<cfg, maker_orders, pending_submits, pending_cancels, seq,
                   canceled, fills, portfolio, now, ctx, gen, trace>>

\* book.impact_vwap(side, target_notional, max_levels=ml), called once
\* with each max_levels on the same book; ret[ml] is what the call returns.
ImpactVwap(side, target_notional) ==
    /\ ret' = [ml \in VwapMaxLevels |->
                 impact_vwap(book, side, target_notional, ml, EpsNotional)]
    /\ last' = [name |-> "impact_vwap", side |-> side,
                target_notional |-> target_notional]
    /\ UNCHANGED <<cfg, book, maker_orders, pending_submits, pending_cancels,
                   seq, canceled, fills, portfolio, now, ctx, gen, trace>>

NextVwap ==
    \/ \E sd \in BookSides, p \in VwapPrices, q \in VwapQtys : VwapApplyLevel(sd, p, q)
    \/ \E s \in VwapSides, t \in VwapTargets : ImpactVwap(s, t)

SpecVwap == InitVwap /\ [][NextVwap]_vars

\* The total notional of the side a query walks.
RECURSIVE SumNotional(_)
SumNotional(m) ==
    IF DOMAIN m = {} THEN 0
    ELSE LET p == SetMin(DOMAIN m)
         IN p * m[p] + SumNotional([x \in DOMAIN m \ {p} |-> m[x]])
WalkedNotional ==
    SumNotional(IF last.side = "buy" THEN book.asks ELSE book.bids)
Default == ret[200]
Answered == last.name = "impact_vwap" /\ ~Default.raised

\* C34: impact_vwap returns NaN exactly when the total notional of the
\* opposite side is less than the target, a finite price otherwise, and
\* the same for every max_levels.
C34_NanIffShort ==
    Answered =>
       /\ Default.nan <=> WalkedNotional < last.target_notional
       /\ \A ml \in VwapMaxLevels : ret[ml] = Default

\* What the walk does: NaN exactly when the depth is short of the target
\* by more than eps_notional or the target is within eps_notional of
\* zero; otherwise a price between the best and the worst level of the
\* side; the same for every max_levels; an error for a target <= 0 or an
\* unknown side.
VwapWithinEps ==
    last.name = "impact_vwap" =>
       /\ Default.raised <=> (last.target_notional <= 0 \/ last.side \notin Sides)
       /\ \A ml \in VwapMaxLevels : ret[ml] = Default
       /\ Answered =>
            /\ Default.nan <=> \/ last.target_notional - WalkedNotional > EpsNotional
                               \/ last.target_notional <= EpsNotional
            /\ ~Default.nan =>
                 LET m == IF last.side = "buy" THEN book.asks ELSE book.bids
                 IN /\ Default.total_qty > 0
                    /\ Default.total_cost >= SetMin(DOMAIN m) * Default.total_qty
                    /\ Default.total_cost <= SetMax(DOMAIN m) * Default.total_qty

\* A walk over one level falls short and the retry over the full depth
\* reaches the target: three levels are needed.
VwapRetried ==
    /\ Answered
    /\ last.side = "buy"
    /\ Cardinality(DOMAIN book.asks) = 3
    /\ last.target_notional = WalkedNotional
    /\ ~ret[1].nan
\* The depth is one unit short of the target and a price is returned.
VwapShortWithinEps ==
    /\ Answered
    /\ last.target_notional = WalkedNotional + 1
    /\ ~Default.nan
\* The depth is ample and NaN is returned: the target is within
\* eps_notional of zero.
VwapNanOnAmpleDepth ==
    /\ Answered
    /\ last.target_notional = EpsNotional
    /\ WalkedNotional >= 12
    /\ Default.nan

\* ---- SpecFold: the portfolio against the list of fills.  A broker without
\* latency takes market orders of both sides and post-only bids at 1 and
\* asks at 2 in two symbols; the levels at 1 and 2 come and go, sells trade
\* at 1 and buys at 2 in either symbol.

FoldSymbols == {"BTCUSDT", "ETHUSDT"}
FoldOrders ==
    {MarketOrder("m", s, 1) : s \in Sides}
    \cup {[LimitOrder("a", "buy", 1, 1, "GTC", TRUE) EXCEPT !.symbol = y] :
             y \in FoldSymbols}
    \cup {[LimitOrder("b", "sell", 2, 2, "GTC", TRUE) EXCEPT !.symbol = y] :
             y \in FoldSymbols}
FoldUpdates == {BidOnly(<<1, q>>) : q \in 0..1} \cup {AskOnly(<<2, q>>) : q \in 0..1}
FoldTrades ==
    {[symbol |-> y, price |-> 1, quantity |-> 1, is_buyer_maker |-> TRUE] :
        y \in FoldSymbols}
    \cup {[symbol |-> y, price |-> 2, quantity |-> 1, is_buyer_maker |-> FALSE] :
            y \in FoldSymbols}

InitFold == Fresh(Config(0, 0, <<1, 1>>), EmptyBook)

NextFold ==
    \/ \E o \in FoldOrders : Submit(o, TRUE)
    \/ \E u \in FoldUpdates : OnDepthUpdate(u, TRUE)
    \/ \E tr \in FoldTrades : OnTrade(tr, TRUE)

SpecFold == InitFold /\ [][NextFold]_vars

\* Portfolio.apply_fill over the fills in the order of the list, from a
\* new portfolio.
RECURSIVE FoldFills(_)
FoldFills(fs) ==
    IF fs = <<>> THEN NewPortfolio
    ELSE LET f == fs[Len(fs)]
         IN apply_fill(FoldFills(SubSeq(fs, 1, Len(fs) - 1)), f.symbol, f.side,
                       f.quantity, f.price, f.fee_usdt)
\* The signed sum of a symbol's fill quantities, and the sum of the fees.
RECURSIVE SignedSum(_, _)
SignedSum(fs, y) ==
    IF fs = <<>> THEN 0
    ELSE (IF Head(fs).symbol # y THEN 0
          ELSE IF Head(fs).side = "buy" THEN Head(fs).quantity
          ELSE -Head(fs).quantity) + SignedSum(Tail(fs), y)
RECURSIVE FeeSum(_)
FeeSum(fs) == IF fs = <<>> THEN 0 ELSE Head(fs).fee_usdt + FeeSum(Tail(fs))

\* C35: with the portfolio changed through the broker only, it is the fold
\* of the fills list: the list only grows, every change of the portfolio
\* comes with an appended Fill and every Fill has quantity > 0 and is
\* applied once, each symbol's position quantity is the signed sum of its
\* fills (within the dust threshold), and fees_paid_usdt is the sum of
\* the fills' fee_usdt.
C35_FoldOfFills ==
    /\ [](/\ portfolio = FoldFills(fills)
          /\ \A i \in 1..Len(fills) : fills[i].quantity > 0
          /\ \A y \in FoldSymbols :
                Abs(PositionOf(portfolio, y).qty - SignedSum(fills, y))
                    <= portfolio.dust
          /\ DOMAIN portfolio.positions \subseteq FoldSymbols
          /\ portfolio.fees_paid_usdt = FeeSum(fills))
    /\ [][/\ Len(fills') >= Len(fills)
          /\ SubSeq(fills', 1, Len(fills)) = fills
          /\ portfolio' # portfolio => Len(fills') > Len(fills)]_vars

\* A taker buy of 1 in BTCUSDT, then a maker sell of 1 in ETHUSDT: long
\* one, short the other, two fees paid.
C35_Witness ==
    /\ Len(fills) = 2
    /\ fills[1].liquidity = "taker" /\ fills[1].side = "buy"
    /\ fills[1].symbol = "BTCUSDT"
    /\ fills[2].liquidity = "maker" /\ fills[2].side = "sell"
    /\ fills[2].symbol = "ETHUSDT"
    /\ PositionOf(portfolio, "BTCUSDT").qty = 1
    /\ PositionOf(portfolio, "ETHUSDT").qty = -1
    /\ portfolio.fees_paid_usdt = fills[1].fee_usdt + fills[2].fee_usdt
    /\ fills[1].fee_usdt > 0 /\ fills[2].fee_usdt > 0
\* A position is opened and closed again by two fills: flat, both kept.
FoldedFlat ==
    /\ Len(fills) = 2
    /\ fills[1].symbol = fills[2].symbol
    /\ fills[1].side # fills[2].side
    /\ fills[1].quantity = fills[2].quantity
    /\ PositionOf(portfolio, fills[1].symbol).qty = 0

\* ---- SpecOnce: every order is submitted once under its id.  One market,
\* one IOC, one GTC and one post-only order of 2, each of either side
\* (buys at 2, sells at 1), with and without submit latency, on a book
\* whose bid at 1 and ask at 2 hold 0 or 1, with trades of 1 and 2 at both
\* prices from both aggressors.  trace maps each submitted id to the
\* quantity of its order.

OnceOrders ==
    {MarketOrder("m", s, 2) : s \in Sides}
    \cup {LimitOrder("i", s, 2, IF s = "buy" THEN 2 ELSE 1, "IOC", FALSE) : s \in Sides}
    \cup {LimitOrder("g", s, 2, IF s = "buy" THEN 2 ELSE 1, "GTC", FALSE) : s \in Sides}
    \cup {LimitOrder("p", s, 2, IF s = "buy" THEN 1 ELSE 2, "GTC", TRUE) : s \in Sides}
OnceUpdates == {BidOnly(<<1, q>>) : q \in 0..1} \cup {AskOnly(<<2, q>>) : q \in 0..1}
OnceTrades ==
    {[symbol |-> "BTCUSDT", price |-> p, quantity |-> q, is_buyer_maker |-> m] :
        p \in 1..2, q \in 1..2, m \in BOOLEAN}
OnceConfigs == {Config(sl, 0, <<1, 1>>) : sl \in 0..1}

InitOnce == \E c \in OnceConfigs : Fresh(c, EmptyBook)

\* broker.submit(order, book, now) of an id not submitted before; two
\* orders to a run.
OnceSubmit(order) ==
    /\ order.id \notin DOMAIN trace
    /\ Cardinality(DOMAIN trace) < 2
    /\ Becomes(submit(World, order, now), now)
    /\ trace' = DictSet(trace, order.id, order.quantity)
    /\ last' = [name |-> "submit", order |-> order]
    /\ UNCHANGED <<ret, ctx, gen>>

NextOnce ==
    \/ \E o \in OnceOrders : OnceSubmit(o)
    \/ \E t \in now..1 : OnTime(t, TRUE)
    \/ \E u \in OnceUpdates : OnDepthUpdate(u, TRUE)
    \/ \E tr \in OnceTrades : OnTrade(tr, TRUE)

SpecOnce == InitOnce /\ [][NextOnce]_vars

\* C36: for every order submitted once under its id, the quantities of all
\* the Fills that carry the id (the taker fill at routing and the maker
\* fills of later trades) add up to no more than the order's quantity, and
\* every Fill carries the id of a submitted order.
C36_FilledWithinQuantity ==
    /\ \A i \in 1..Len(fills) : fills[i].order_id \in DOMAIN trace
    /\ \A x \in DOMAIN trace : FilledFor(fills, x) <= trace[x]

\* A GTC buy of 2 took 1 from the ask and a trade filled the resting
\* remainder of 1: filled in full, no longer resting.
C36_Witness ==
    /\ Len(fills) = 2
    /\ fills[1].order_id = "g" /\ fills[1].liquidity = "taker"
    /\ fills[1].quantity = 1
    /\ fills[2].order_id = "g" /\ fills[2].liquidity = "maker"
    /\ fills[2].quantity = 1
    /\ last.name = "on_trade" /\ last.trade.quantity = 2
    /\ trace["g"] = 2
    /\ "g" \notin MakerIds(maker_orders)

\* ---- SpecRest: what moves a resting order.  A post-only ask "b" of 2
\* rests at 2 (submit latency 0 or 1) while market buys take the ask
\* level, depth updates set the ask at 2, the ask at 1, the bid at 2 and a
\* level of another symbol, trades print at 2 from both aggressors, at 1
\* and in another symbol, "b" and another id are canceled and on_time is
\* called.

RestOrders == {LimitOrder("b", "sell", 2, 2, "GTC", TRUE),
               MarketOrder("m", "buy", 1)}
RestUpdates ==
    {AskOnly(<<2, q>>) : q \in 0..2}
    \cup {AskOnly(<<1, 1>>), BidOnly(<<2, 1>>)}
    \cup {[AskOnly(<<2, 0>>) EXCEPT !.symbol = "ETHUSDT"]}
RestTrades ==
    {[symbol |-> "BTCUSDT", price |-> 2, quantity |-> 1, is_buyer_maker |-> m] :
        m \in BOOLEAN}
    \cup {[symbol |-> "BTCUSDT", price |-> 1, quantity |-> 1, is_buyer_maker |-> FALSE],
          [symbol |-> "ETHUSDT", price |-> 2, quantity |-> 1, is_buyer_maker |-> FALSE]}
RestConfigs == {Config(sl, 0, <<1, 1>>) : sl \in 0..1}

InitRest == \E c \in RestConfigs : Fresh(c, EmptyBook)

NextRest ==
    \/ \E o \in RestOrders : Submit(o, TRUE) /\ Cardinality(pending_submits') <= 1
    \/ \E i \in {"a", "b"} : Cancel(i, now, TRUE)
    \/ \E t \in now..1 : OnTime(t, TRUE)
    \/ \E u \in RestUpdates : OnDepthUpdate(u, TRUE)
    \/ \E tr \in RestTrades : OnTrade(tr, TRUE)

SpecRest == InitRest /\ [][NextRest]_vars

\* The depth update touches the order's own side at its price.
Touches(mo, update) ==
    /\ update.symbol = mo.symbol
    /\ LET touched == IF mo.side = "buy" THEN update.bid_updates
                      ELSE update.ask_updates
       IN \E k \in 1..Len(touched) : touched[k][1] = mo.price

\* C37: the queue_ahead_qty and filled_qty of a resting order change only
\* in a depth update of its symbol that touches its own side at its price
\* or in a trade of its symbol at its price with the matching aggressor;
\* submits and their taker fills, cancels of other ids, on_time, depth
\* updates of other symbols, sides or prices and non-matching trades leave
\* the order as it is.
C37_RestingOrderMoves ==
    [][\A x \in MakerIds(maker_orders) \cap MakerIds(maker_orders') :
          LET mo == maker_orders[MakerOf(maker_orders, x)].mo
              mo2 == maker_orders'[MakerOf(maker_orders', x)].mo
          IN \/ mo2 = mo
             \/ /\ last'.name = "on_depth_update"
                /\ Touches(mo, last'.update)
                /\ mo2 = [mo EXCEPT !.queue_ahead_qty = mo2.queue_ahead_qty]
             \/ /\ last'.name = "on_trade"
                /\ Matches(mo, last'.trade)
                /\ mo2 = [mo EXCEPT !.queue_ahead_qty = mo2.queue_ahead_qty,
                                    !.filled_qty = mo2.filled_qty]
             \/ \E o \in Routed : o.id = x]_vars

\* A market buy takes the whole ask level at 2 while "b" rests there
\* behind 2: the level is gone from the book and "b" still has 2 ahead.
C37_Witness ==
    /\ last.name \in {"submit", "on_time"}
    /\ fills # <<>>
    /\ fills[Len(fills)].order_id = "m"
    /\ fills[Len(fills)].price = 2 * PxScale
    /\ 2 \notin DOMAIN book.asks
    /\ "b" \in MakerIds(maker_orders)
    /\ maker_orders[MakerOf(maker_orders, "b")].mo.queue_ahead_qty = 2
\* A depth update lowers the level at the order's price and its queue.
RestQueueLowered ==
    /\ last.name = "on_depth_update"
    /\ "b" \in MakerIds(last.before)
    /\ "b" \in MakerIds(maker_orders)
    /\ last.before[MakerOf(last.before, "b")].mo.queue_ahead_qty = 2
    /\ maker_orders[MakerOf(maker_orders, "b")].mo.queue_ahead_qty = 1

\* The liquidities of the fills the step appends.
NewLiquidities == {fills'[k].liquidity : k \in (Len(fills) + 1)..Len(fills')}

\* C38: the book is changed only by depth updates and by taker fills.  A
\* trade (maker fills included), a cancel, and a submit or on_time that
\* fills nothing as a taker (an order opened to rest, a post-only order
\* rejected, nothing routed) leave bids and asks unchanged, so a resting
\* order never shows in the book.
C38_BookWriters ==
    [][/\ book' # book =>
             \/ last'.name = "on_depth_update"
             \/ /\ last'.name \in {"submit", "on_time"}
                /\ "taker" \in NewLiquidities
       /\ last'.name \in {"on_trade", "cancel"} => book' = book
       /\ (last'.name \in {"submit", "on_time"} /\ fills' = fills) => book' = book]_vars

\* The post-only ask "b" was opened at 2 on a book with no ask at 2: it
\* rests, and the book has no level there and no best ask at 2 after.
C38_Witness ==
    /\ last.name \in {"submit", "on_time"}
    /\ "b" \in MakerIds(maker_orders)
    /\ fills = <<>>
    /\ 1 \in DOMAIN book.asks
    /\ 2 \notin DOMAIN book.asks
    /\ best_ask(book) = 1
\* A trade fills the resting ask in part: the book is as it was, empty.
MakerFillOffBook ==
    /\ last.name = "on_trade"
    /\ fills # <<>>
    /\ fills[Len(fills)].liquidity = "maker"
    /\ book = EmptyBook
\* The post-only ask at 2 is rejected for the bid at 2.
PostOnlyRejectedOffBook ==
    /\ last.name = "submit"
    /\ last.order.id = "b"
    /\ cfg.submit_latency_ms = 0
    /\ maker_orders = <<>>
    /\ fills = <<>>
    /\ DictGet(book.bids, 2, 0) = 1
    /\ book.asks = EmptyDict

\* ---- SpecShare: several orders resting at one price.  Post-only bids "a"
\* and "b" of 2 rest at 1 behind whatever the bid level held when each was
\* opened (0, 1 or 2), an ask "c" rests at 2, and sells of 2 and 4 trade
\* at 1 (buys at 2) with a participation of 1 or 1/2.

ShareOrders == {LimitOrder(i, "buy", 2, 1, "GTC", TRUE) : i \in {"a", "b"}}
               \cup {LimitOrder("c", "sell", 1, 2, "GTC", TRUE)}
ShareUpdates == {BidOnly(<<1, q>>) : q \in 0..2}
ShareTrades ==
    {[symbol |-> "BTCUSDT", price |-> 1, quantity |-> q, is_buyer_maker |-> TRUE] :
        q \in {2, 4}}
    \cup {[symbol |-> "BTCUSDT", price |-> 2, quantity |-> 2, is_buyer_maker |-> FALSE]}
ShareConfigs == {Config(0, 0, part) : part \in {<<1, 1>>, <<1, 2>>}}

InitShare == \E c \in ShareConfigs : Fresh(c, EmptyBook)

NextShare ==
    \/ \E o \in ShareOrders :
          o.id \notin MakerIds(maker_orders) /\ Submit(o, TRUE)
    \/ \E u \in ShareUpdates : OnDepthUpdate(u, TRUE)
    \/ \E tr \in ShareTrades : OnTrade(tr, TRUE)

SpecShare == InitShare /\ [][NextShare]_vars

\* What on_trade does to the order resting under x when no other order
\* rests: the fills of a broker that holds that order alone.
AloneFills(x, trade) ==
    broker_on_trade([World EXCEPT
                        !.maker_orders = <<maker_orders[MakerOf(maker_orders, x)]>>,
                        !.fills = <<>>],
                    trade, now).fills

\* C39: on_trade applies the trade to every resting order on its own.  An
\* order that matches is progressed with the whole effective volume v =
\* quantity x participation against its own queue_ahead_qty: it is filled
\* min(remaining, v - queue_ahead_qty) when v exceeds its queue and nothing
\* otherwise, the same as if it rested alone, whatever the other resting
\* orders are filled; an order that does not match is left as it is.
C39_TradePerOrder ==
    [][last'.name = "on_trade" =>
         \A x \in MakerIds(maker_orders) :
            LET mo == maker_orders[MakerOf(maker_orders, x)].mo
                tr == last'.trade
                v == effective_volume(mo, tr)
                fill == IF Matches(mo, tr) /\ v > mo.queue_ahead_qty
                        THEN Min2(mo.quantity - mo.filled_qty, v - mo.queue_ahead_qty)
                        ELSE 0
                after == IF Matches(mo, tr)
                         THEN [mo EXCEPT
                                  !.queue_ahead_qty = @ - Min2(v, @),
                                  !.filled_qty = @ + fill]
                         ELSE mo
            IN /\ FilledFor(NewFills, x) = fill
               /\ FilledFor(AloneFills(x, tr), x) = fill
               /\ IF after.filled_qty >= after.quantity
                  THEN x \notin MakerIds(maker_orders')
                  ELSE /\ x \in MakerIds(maker_orders')
                       /\ maker_orders'[MakerOf(maker_orders', x)].mo = after]_vars

\* One sell of 4 fills "a" (nothing ahead) by 2 and "b" (2 ahead) by 2:
\* each saw the whole 4, which is less than the 2 + 2 + 2 served.
C39_Witness ==
    /\ last.name = "on_trade"
    /\ last.trade.quantity = 4
    /\ cfg.maker_trade_participation = <<1, 1>>
    /\ Len(fills) = 2
    /\ {fills[1].order_id, fills[2].order_id} = {"a", "b"}
    /\ fills[1].quantity = 2 /\ fills[2].quantity = 2
    /\ "a" \notin MakerIds(maker_orders)
    /\ "b" \notin MakerIds(maker_orders)

Exact == portfolio.exact

=============================================================================
